---------------------------- MODULE Spec2Model ----------------------------
(***************************************************************************)
(* Document segmentation and author resolution of the ingestion engine    *)
(* (src/scraper/chunker.py, src/prompts.py, src/scraper/extract.py).       *)
(*                                                                         *)
(* Text is modelled character by character: a Python str is a sequence of *)
(* one-character strings, so that strip, splitlines, join and the regular *)
(* expressions of the source are computed and not assumed.  The only line *)
(* terminator that occurs in the modelled inputs is "\n".                  *)
(***************************************************************************)
EXTENDS Integers, Sequences, FiniteSets, TLC

VARIABLES
    wrapText,      \* auto_wrap_code_blocks: the input text
    wrapMode,      \* auto_wrap_code_blocks: the mode argument
    wrapCalls,     \* how many times it has been applied (0, 1 or 2)
    wrapOnce,      \* result of one application
    wrapTwice,     \* result of applying it to its own result
    document,      \* chunk_document: the document passed in
    chunkPc,       \* "start", then "returned" or "raised"
    chunks,        \* the chunk list it returned
    spans,         \* web branch: the slice [start, end] of content each chunk was cut from
    raised,        \* the exception that left chunk_document (None if it returned)
    rechunked,     \* a second run, on the content of the returned chunk number .of
    nextId,        \* the number of chunk ids drawn so far, plus one
    items,         \* format_chunks_for_ingestion: the Items built from chunks
    capability,    \* which tagging libraries the imports left available
    tagSource,     \* how many tags each library finds in a text that is not blank
    preview,       \* get_author: the content_preview argument
    authorMode,    \* get_author: the mode argument
    caller,        \* the extraction function that calls get_author
    authorPc,      \* "idle"; "opening", "start", "requesting", then "attached" or "raised"
    llmCalls,      \* requests issued to the external LLM
    llmRequest,    \* the request issued, if any
    llmReply,      \* how the request ended: with a content or with an exception
    author_guess,  \* what get_author returned: a str or None
    outcome,       \* the author and the method the caller stored
    escaped,       \* the exception that left get_author (None if it returned)
    candidate,     \* is_valid_human_name: the argument
    nameChecked,   \* whether it has been applied
    nameValid,     \* what it returned
    postText,      \* postprocess_markdown: the input text
    postMode,      \* postprocess_markdown: the mode argument
    postDone,      \* whether it has been applied
    postOut,       \* what it returned
    titleContent,  \* extract_title_from_content: the content argument
    titleMeta,     \* extract_title_from_content: metadata.get("title")
    titleDone,     \* whether it has been applied
    titleOut,      \* what it returned
    fmtChunks,     \* format_chunks_for_ingestion: the chunk list passed in
    fmtDone,       \* whether it has been applied
    fmtItems,      \* the Items it returned
    mergeIn,       \* the chunk list the merge pass of chunk_pdf_by_headings starts from
    mergeDone,     \* whether the pass has run
    mergeOut,      \* merged_chunks when the pass is over
    entry,         \* the extraction entry point called for the document
    fitz,          \* whether "import fitz" succeeded
    opens,         \* which PDF library can open the file
    spanCount,     \* the number of text spans PyMuPDF finds in the PDF
    resolved,      \* the callers whose get_author call has returned, in order
    extractPc,     \* "idle"; "running", then "returned"
    joinText,      \* smart_join_pdf_lines: the input text
    joinDone,      \* whether it has been applied
    joinOut        \* what it returned

wrapVars  == <<wrapText, wrapMode, wrapCalls, wrapOnce, wrapTwice>>
chunkVars == <<document, chunkPc, chunks, spans, raised, rechunked, nextId,
               items, capability, tagSource>>
authorVars == <<preview, authorMode, caller, authorPc, llmCalls, llmRequest, llmReply,
                author_guess, outcome, escaped>>
nameVars == <<candidate, nameChecked, nameValid>>
postVars == <<postText, postMode, postDone, postOut>>
titleVars == <<titleContent, titleMeta, titleDone, titleOut>>
itemVars == <<fmtChunks, fmtDone, fmtItems>>
mergeVars == <<mergeIn, mergeDone, mergeOut>>
extractVars == <<entry, fitz, opens, spanCount, resolved, extractPc>>
joinVars == <<joinText, joinDone, joinOut>>
vars == <<wrapVars, chunkVars, authorVars, nameVars, postVars, titleVars,
          itemVars, mergeVars, extractVars, joinVars>>

None == "None"

-----------------------------------------------------------------------------
(* Character classes and the str methods the source relies on.             *)

UpperSeq == <<"A","B","C","D","E","F","G","H","I","J","K","L","M","N","O","P","Q","R","S","T","U","V","W","X","Y","Z">>
LowerSeq == <<"a","b","c","d","e","f","g","h","i","j","k","l","m","n","o","p","q","r","s","t","u","v","w","x","y","z">>

Upper == {UpperSeq[i] : i \in 1..26}
Lower == {LowerSeq[i] : i \in 1..26}
Digit == {"0","1","2","3","4","5","6","7","8","9"}
Letter == Upper \cup Lower
WordChar == Letter \cup Digit \cup {"_"}
WhiteSpace == {" ", "\t", "\n", "\r", "\f"}

\* The grave accent U+0060.  SANY's lexer does not accept that character
\* inside a string, so it is the one character written as a longer string.
BQ == "BQ"

\* F applied to the value of v.  TLC evaluates an operator's argument anew at
\* each use; binding it through a set evaluates it once.
Let(v, F(_)) == CHOOSE r \in {F(x) : x \in {v}} : TRUE

ToLowerChar(c) ==
    IF c \in Upper THEN LowerSeq[CHOOSE i \in 1..26 : UpperSeq[i] = c] ELSE c

ToLower(s) == [i \in 1..Len(s) |-> ToLowerChar(s[i])]

\* the least position j >= i of s at which P holds, Len(s) + 1 if there is none
FirstIdx(s, i, P(_)) ==
    CHOOSE j \in i..(Len(s) + 1) :
        /\ (j = Len(s) + 1 \/ P(j))
        /\ \A k \in i..(j - 1) : ~P(k)

FirstNonSpace(s, i) == FirstIdx(s, i, LAMBDA j : s[j] \notin WhiteSpace)

RECURSIVE LastNonSpace(_, _)
LastNonSpace(s, i) ==
    IF i < 1 THEN i
    ELSE IF s[i] \in WhiteSpace THEN LastNonSpace(s, i - 1) ELSE i

LStrip(s) == SubSeq(s, FirstNonSpace(s, 1), Len(s))
RStrip(s) == SubSeq(s, 1, LastNonSpace(s, Len(s)))
Strip(s) == SubSeq(s, FirstNonSpace(s, 1), LastNonSpace(s, Len(s)))

StartsWith(s, p) == Len(s) >= Len(p) /\ SubSeq(s, 1, Len(p)) = p

MatchAt(s, i, p) == i + Len(p) - 1 <= Len(s) /\ SubSeq(s, i, i + Len(p) - 1) = p

Contains(s, p) == \E i \in 1..(Len(s) - Len(p) + 1) : MatchAt(s, i, p)

\* str.split(sep): the pieces between the leftmost non-overlapping
\* occurrences of sep, as slices <<first, last>> of s; "" gives one empty slice
RECURSIVE SplitRangesFrom(_, _, _)
SplitRangesFrom(s, sep, start) ==
    LET m == FirstIdx(s, start, LAMBDA j : MatchAt(s, j, sep))
    IN IF m > Len(s) THEN << <<start, Len(s)>> >>
       ELSE << <<start, m - 1>> >> \o SplitRangesFrom(s, sep, m + Len(sep))

SplitRanges(s, sep) == SplitRangesFrom(s, sep, 1)

Slice(s, r) == SubSeq(s, r[1], r[2])

Split(s, sep) ==
    Let(s, LAMBDA t : Let(SplitRanges(t, sep), LAMBDA rs :
        [i \in 1..Len(rs) |-> Slice(t, rs[i])]))

NL == <<"\n">>

\* str.splitlines(): like split("\n"), but a final empty piece is dropped,
\* so "" gives [] and "a\n" gives ["a"].
SplitLines(s) ==
    Let(Split(s, NL), LAMBDA pieces :
        IF pieces[Len(pieces)] = <<>> THEN SubSeq(pieces, 1, Len(pieces) - 1)
        ELSE pieces)

\* sep.join(parts)
RECURSIVE Join(_, _)
Join(parts, sep) ==
    IF parts = <<>> THEN <<>>
    ELSE IF Len(parts) = 1 THEN parts[1]
    ELSE parts[1] \o sep \o Join(Tail(parts), sep)

-----------------------------------------------------------------------------
(* Code-fence normaliser: is_code_line and auto_wrap_code_blocks.          *)

SkipPhrases ==
    { <<"q","u","i","c","k","s","t","a","r","t">>,
      <<"n","a","v","i","g","a","t","i","o","n">>,
      <<"a","d","m","i","n"," ","p","o","r","t","a","l">>,
      <<"c","r","e","a","t","e"," ","a"," ","d","a","s","h","b","o","a","r","d">>,
      <<"l","e","a","r","n"," ","m","o","r","e">>,
      <<"s","e","a","r","c","h">>,
      <<"a","s","k"," ","a","i">>,
      <<"c","o","p","y">>,
      <<"t","o"," ","c","r","e","a","t","e"," ","a"," ","r","e","a","d","-","o","n","l","y"," ","u","s","e","r">>,
      <<"p","o","s","t","g","r","e","s","q","l">>,
      <<"b","i","g"," ","q","u","e","r","y">>,
      <<"s","n","o","w","f","l","a","k","e">>,
      <<"m","y","s","q","l">>,
      <<"d","o"," ","t","h","e"," ","f","o","l","l","o","w","i","n","g">>,
      <<"g","r","a","n","t"," ","c","o","n","n","e","c","t"," ","p","r","i","v","i","l","e","g","e","s">>,
      <<"g","r","a","n","t"," ","u","s","a","g","e"," ","o","n"," ","t","h","e"," ","s","c","h","e","m","a">>,
      <<"g","r","a","n","t"," ","s","e","l","e","c","t"," ","p","r","i","v","i","l","e","g","e","s">>,
      <<"t","h","e"," ","c","o","n","n","e","c","t","i","o","n"," ","s","t","r","i","n","g">>,
      <<"g","o"," ","t","o">>,
      <<"i","f"," ","y","o","u","'","r","e"," ","u","s","i","n","g">>,
      <<"f","o","r"," ","m","o","r","e"," ","i","n","f","o","r","m","a","t","i","o","n">>,
      <<"t","h","e"," ","q","u","i","l","l"," ","p","l","a","t","f","o","r","m">>,
      <<"c","r","e","a","t","e"," ","a"," ","c","l","e","a","n","e","d"," ","s","c","h","e","m","a">>,
      <<"n","e","x","t"," ","s","t","e","p","s">>,
      <<"o","n","c","e"," ","y","o","u"," ","h","a","v","e">>,
      <<"c","h","e","c","k"," ","o","u","t"," ","o","u","r"," ","g","u","i","d","e","s">>,
      <<"b","u","i","l","d"," ","y","o","u","r"," ","f","i","r","s","t"," ","d","a","s","h","b","o","a","r","d">>,
      <<"p","o","w","e","r","e","d"," ","b","y">>,
      <<"o","n"," ","t","h","i","s"," ","p","a","g","e">> }

SqlKeywords ==
    { <<"c","r","e","a","t","e">>,
      <<"g","r","a","n","t">>,
      <<"s","e","l","e","c","t">>,
      <<"i","n","s","e","r","t">>,
      <<"u","p","d","a","t","e">>,
      <<"d","e","l","e","t","e">>,
      <<"d","r","o","p">>,
      <<"a","l","t","e","r">>,
      <<"u","s","e">>,
      <<"s","h","o","w">>,
      <<"d","e","s","c","r","i","b","e">> }

PdfCodePrefixes ==
    { <<"d","e","f"," ">>,
      <<"c","l","a","s","s"," ">>,
      <<"c","r","e","a","t","e"," ">>,
      <<"g","r","a","n","t"," ">>,
      <<"s","e","l","e","c","t"," ">>,
      <<"i","n","s","e","r","t"," ">>,
      <<"u","p","d","a","t","e"," ">>,
      <<"d","e","l","e","t","e"," ">>,
      <<"d","r","o","p"," ">>,
      <<"a","l","t","e","r"," ">>,
      <<"u","s","e"," ">>,
      <<"s","h","o","w"," ">>,
      <<"d","e","s","c","r","i","b","e"," ">> }

\* the character class of the first re.search of the web branch (the
\* alternative of two spaces is the Contains test in is_code_line_web)
CodePunct == {";", "{", "}", "<", ">", "=", "(", ")", "'", "\"", BQ, "[", "]", "#", "@", "$"}

\* ^\s{n,} : the line starts with at least n whitespace characters
LeadingSpaces(line, n) ==
    Len(line) >= n /\ \A i \in 1..n : line[i] \in WhiteSpace

\* \b(KEYWORD)\b, case-insensitive: a keyword with no word character on
\* either side
HasSqlKeyword(line) ==
    Let(ToLower(line), LAMBDA low :
        \E kw \in SqlKeywords : \E i \in 1..(Len(low) - Len(kw) + 1) :
           /\ MatchAt(low, i, kw)
           /\ (i = 1 \/ low[i - 1] \notin WordChar)
           /\ (i + Len(kw) > Len(low) \/ low[i + Len(kw)] \notin WordChar))

\* re.search(r'://.*@.*:', line)
HasCredentialUrl(line) ==
    \E i \in 1..Len(line) :
        /\ MatchAt(line, i, <<":", "/", "/">>)
        /\ \E j \in (i + 3)..Len(line) :
              /\ line[j] = "@"
              /\ \E k \in (j + 1)..Len(line) : line[k] = ":"

is_code_line_pdf(line) ==
    Let(Strip(line), LAMBDA stripped :
        \/ Let(ToLower(stripped), LAMBDA low :
               \E p \in PdfCodePrefixes : StartsWith(low, p))
        \/ LeadingSpaces(line, 4)
        \/ StartsWith(stripped, <<"$">>)
        \/ StartsWith(stripped, <<"#">>))

is_code_line_web(line) ==
    Let(Strip(line), LAMBDA stripped :
    Let(Strip(ToLower(line)), LAMBDA line_lower :
        IF \E skip \in SkipPhrases : Contains(line_lower, skip) THEN FALSE
        ELSE \/ \E i \in 1..Len(line) : line[i] \in CodePunct
             \/ Contains(line, <<" ", " ">>)
             \/ LeadingSpaces(line, 2)
             \/ StartsWith(stripped, <<">", ">", ">">>)
             \/ StartsWith(stripped, <<"$">>)
             \/ StartsWith(stripped, <<"-", "-">>)
             \/ StartsWith(stripped, <<"|">>)
             \/ HasSqlKeyword(line)
             \/ HasCredentialUrl(line)))

is_code_line(line0, mode) ==
    Let(line0, LAMBDA line :
        IF Strip(line) = <<>> THEN FALSE
        ELSE IF mode = "pdf" THEN is_code_line_pdf(line)
        ELSE is_code_line_web(line))

Fence == <<BQ, BQ, BQ>>

IsFenceLine(line) == StartsWith(Strip(line), Fence)

\* the three identical "if buffer:" blocks of auto_wrap_code_blocks
FlushBuffer(output, buffer) ==
    LET cleaned == SelectSeq(buffer, LAMBDA b : Strip(b) # <<>>)
    IN IF buffer # <<>> /\ cleaned # <<>>
       THEN output \o <<Fence>> \o cleaned \o <<Fence>>
       ELSE output

\* an iteration that gathers code-like lines inside an explicit fence too
WrapLineInsideFences(st, line, mode) ==
    IF IsFenceLine(line)
    THEN [output |-> Append(FlushBuffer(st.output, st.buffer), line),
          buffer |-> <<>>,
          already_code_wrapped |-> ~st.already_code_wrapped]
    ELSE IF is_code_line(line, mode)
    THEN [st EXCEPT !.buffer = Append(@, line)]
    ELSE [st EXCEPT !.output = Append(FlushBuffer(st.output, st.buffer), line),
                    !.buffer = <<>>]

\* one iteration of "for line in lines"
WrapLine(st, line, mode) ==
    IF IsFenceLine(line)
    THEN [output |-> Append(FlushBuffer(st.output, st.buffer), line),
          buffer |-> <<>>,
          already_code_wrapped |-> ~st.already_code_wrapped]
    ELSE IF st.already_code_wrapped
    THEN [st EXCEPT !.output = Append(@, line)]
    ELSE IF is_code_line(line, mode)
    THEN [st EXCEPT !.buffer = Append(@, line)]
    ELSE [st EXCEPT !.output = Append(FlushBuffer(st.output, st.buffer), line),
                    !.buffer = <<>>]

RECURSIVE WrapLoop(_, _, _, _)
WrapLoop(st, lines, i, mode) ==
    IF i > Len(lines) THEN st
    ELSE Let(WrapLine(st, lines[i], mode), LAMBDA st2 : WrapLoop(st2, lines, i + 1, mode))

auto_wrap_lines(lines, mode) ==
    Let(WrapLoop([output |-> <<>>, buffer |-> <<>>,
                  already_code_wrapped |-> FALSE], lines, 1, mode),
        LAMBDA st : FlushBuffer(st.output, st.buffer))

auto_wrap_code_blocks(text, mode) ==
    Let(SplitLines(text), LAMBDA lines : Join(auto_wrap_lines(lines, mode), NL))

-----------------------------------------------------------------------------
(* Markdown postprocessor.                                                 *)

\* the characters of s at the positions i for which Keep(i) holds
KeepWhere(s, Keep(_)) ==
    LET tagged == [i \in 1..Len(s) |-> <<s[i], Keep(i)>>]
        kept   == SelectSeq(tagged, LAMBDA p : p[2])
    IN [i \in 1..Len(kept) |-> kept[i][1]]

\* re.sub(r' +', ' ', s)
CollapseSpaces(s) ==
    KeepWhere(s, LAMBDA i : ~(s[i] = " " /\ i > 1 /\ s[i - 1] = " "))

\* re.sub(r'\n{3,}', '\n\n', s)
CollapseNewlines(s) ==
    KeepWhere(s, LAMBDA i : ~(/\ s[i] = "\n" /\ i > 2
                              /\ s[i - 1] = "\n" /\ s[i - 2] = "\n"))

\* end (exclusive) of the maximal run of non-whitespace characters from i
NonSpaceEnd(s, i) == FirstIdx(s, i, LAMBDA j : s[j] \in WhiteSpace)

Http  == <<"h","t","t","p",":","/","/">>
Https == <<"h","t","t","p","s",":","/","/">>
Www   == <<"w","w","w",".">>

\* re.sub(r'(https?://\S+)', r'[\1](\1)', l), scanning from position i
HttpAt(l, j) ==
    \E p \in {Http, Https} :
        MatchAt(l, j, p) /\ j + Len(p) <= Len(l) /\ l[j + Len(p)] \notin WhiteSpace

RECURSIVE LinkHttp(_, _)
LinkHttp(l, i) ==
    LET m == FirstIdx(l, i, LAMBDA j : HttpAt(l, j))
    IN IF m > Len(l) THEN SubSeq(l, i, Len(l))
       ELSE LET e   == NonSpaceEnd(l, m)
                url == SubSeq(l, m, e - 1)
            IN SubSeq(l, i, m - 1) \o <<"[">> \o url \o <<"]", "(">> \o url \o <<")">>
               \o LinkHttp(l, e)

\* re.sub(r'\b(www\.[^\s]+)', r'[\1](http://\1)', l), scanning from position i
WwwAt(l, j) ==
    /\ MatchAt(l, j, Www)
    /\ (j = 1 \/ l[j - 1] \notin WordChar)
    /\ j + 4 <= Len(l) /\ l[j + 4] \notin WhiteSpace

RECURSIVE LinkWww(_, _)
LinkWww(l, i) ==
    LET m == FirstIdx(l, i, LAMBDA j : WwwAt(l, j))
    IN IF m > Len(l) THEN SubSeq(l, i, Len(l))
       ELSE LET e   == NonSpaceEnd(l, m)
                url == SubSeq(l, m, e - 1)
            IN SubSeq(l, i, m - 1) \o <<"[">> \o url \o <<"]", "(">> \o Http \o url
               \o <<")">> \o LinkWww(l, e)

\* The bullet rewrite: re.sub(r'^(\-|\u2022|\*)\s+', '* ', l) under the guard
\* re.match(r'^(\u0001|\u0002|\u0003|\-|\*|\u2022)\s+', l).  The guard's three
\* control characters are not rewritten by the substitution.  U+2022 is
\* written as a longer string, like BQ.
Bullet == "U2022"
BulletChars == {"-", "*", Bullet}

RewriteBullet(l) ==
    IF Len(l) >= 2 /\ l[1] \in BulletChars /\ l[2] \in WhiteSpace
    THEN <<"*", " ">> \o SubSeq(l, FirstNonSpace(l, 2), Len(l))
    ELSE l

\* the body of "for line in lines" for a line outside a fence
ProcessTextLine(line) ==
    Let(RewriteBullet(Strip(line)), LAMBDA l :
    Let(LinkHttp(l, 1), LAMBDA l2 : LinkWww(l2, 1)))

\* a loop without the "if in_code: processed.append('```')" that follows it
RECURSIVE ProcessLinesLeftOpen(_, _, _)
ProcessLinesLeftOpen(lines, i, in_code) ==
    IF i > Len(lines) THEN <<>>
    ELSE IF IsFenceLine(lines[i])
    THEN (IF in_code THEN <<Fence>> \o ProcessLinesLeftOpen(lines, i + 1, FALSE)
                     ELSE <<lines[i]>> \o ProcessLinesLeftOpen(lines, i + 1, TRUE))
    ELSE IF in_code THEN <<lines[i]>> \o ProcessLinesLeftOpen(lines, i + 1, TRUE)
    ELSE <<ProcessTextLine(lines[i])>> \o ProcessLinesLeftOpen(lines, i + 1, FALSE)

RECURSIVE ProcessLines(_, _, _)
ProcessLines(lines, i, in_code) ==
    IF i > Len(lines) THEN (IF in_code THEN <<Fence>> ELSE <<>>)
    ELSE IF IsFenceLine(lines[i])
    THEN (IF in_code THEN <<Fence>> \o ProcessLines(lines, i + 1, FALSE)
                     ELSE <<lines[i]>> \o ProcessLines(lines, i + 1, TRUE))
    ELSE IF in_code THEN <<lines[i]>> \o ProcessLines(lines, i + 1, TRUE)
    ELSE <<ProcessTextLine(lines[i])>> \o ProcessLines(lines, i + 1, FALSE)

\* "Clean up excessive blank lines": a run of blank lines becomes one ''
RECURSIVE CollapseBlankLines(_, _, _)
CollapseBlankLines(processed, i, last_blank) ==
    IF i > Len(processed) THEN <<>>
    ELSE IF Strip(processed[i]) = <<>>
    THEN (IF last_blank THEN <<>> ELSE << <<>> >>)
         \o CollapseBlankLines(processed, i + 1, TRUE)
    ELSE <<processed[i]>> \o CollapseBlankLines(processed, i + 1, FALSE)

postprocess_markdown(text, mode) ==
    Let(auto_wrap_code_blocks(text, mode), LAMBDA wrapped :
    Let(SplitLines(wrapped), LAMBDA lines :
    Let(ProcessLines(lines, 1, FALSE), LAMBDA processed :
    Let(CollapseBlankLines(processed, 1, FALSE), LAMBDA out :
    Let(Strip(Join(out, NL)), LAMBDA result :
    Let(CollapseNewlines(result), LAMBDA r2 : CollapseSpaces(r2)))))))

-----------------------------------------------------------------------------
(* Heading segmenter, PDF variant: smart_join_pdf_lines and                *)
(* chunk_pdf_by_headings.                                                  *)

\* str.split(): the maximal runs of non-whitespace characters
RECURSIVE WordsFrom(_, _)
WordsFrom(s, i) ==
    LET b == FirstNonSpace(s, i)
    IN IF b > Len(s) THEN <<>>
       ELSE <<SubSeq(s, b, NonSpaceEnd(s, b) - 1)>> \o WordsFrom(s, NonSpaceEnd(s, b))

Words(s) == WordsFrom(s, 1)

\* str.isupper() / str.islower(): at least one cased character and no cased
\* character of the other case
IsUpperStr(s) ==
    (\E i \in 1..Len(s) : s[i] \in Upper) /\ (\A i \in 1..Len(s) : s[i] \notin Lower)

IsLowerStr(s) ==
    (\E i \in 1..Len(s) : s[i] \in Lower) /\ (\A i \in 1..Len(s) : s[i] \notin Upper)

RECURSIVE SmartJoinLoop(_, _)
SmartJoinLoop(lines, i) ==
    IF i > Len(lines) THEN <<>>
    ELSE LET line == lines[i]
             ls   == Strip(line)
         IN IF /\ i < Len(lines)
               /\ ls # <<>> /\ ls[Len(ls)] \in Letter \cup Digit
               /\ Strip(lines[i + 1]) # <<>>
               /\ Strip(lines[i + 1])[1] \in Lower \cup Digit
            THEN <<RStrip(line) \o <<" ">> \o LStrip(lines[i + 1])>>
                 \o SmartJoinLoop(lines, i + 2)
            ELSE <<line>> \o SmartJoinLoop(lines, i + 1)

smart_join_pdf_lines(text) ==
    Join(SelectSeq(SmartJoinLoop(SplitLines(text), 1), LAMBDA l : Strip(l) # <<>>), NL)

\* garbage_patterns is the empty list: every pattern of it is commented out
garbage_patterns == {}

is_garbage_line(text) == \E pat \in garbage_patterns : Contains(ToLower(Strip(text)), pat)

DigitsEnd(s, i) == FirstIdx(s, i, LAMBDA j : s[j] \notin Digit)

HeadingWords ==
    { <<"c","h","a","p","t","e","r">>, <<"s","e","c","t","i","o","n">>,
      <<"p","a","r","t">>, <<"c","h">> }

\* heading_patterns, matched at the start of the stripped text
MatchesHeadingPattern(text) ==
    LET e == DigitsEnd(text, 1)
    IN \/ \E w \in HeadingWords :
             /\ Len(text) >= Len(w) /\ ToLower(SubSeq(text, 1, Len(w))) = w
             /\ LET j == FirstNonSpace(text, Len(w) + 1)
                IN j <= Len(text) /\ text[j] \in Digit
       \/ /\ e > 1 /\ e + 1 <= Len(text)
          /\ text[e] = "." /\ text[e + 1] \in WhiteSpace
       \/ /\ e > 1 /\ e <= Len(text) /\ text[e] \in WhiteSpace
       \/ /\ e > 1 /\ e + 1 <= Len(text)
          /\ text[e] = "." /\ text[e + 1] \in Digit

is_allcaps_heading(text) ==
    LET words  == Words(text)
        joined == Join(words, <<>>)
    IN IF Len(words) < 2 THEN FALSE
       ELSE IsUpperStr(joined) /\ \E i \in 1..Len(joined) : joined[i] \in Letter

\* a heading test that knows the all-caps rule only
AllCapsHeadingsOnly(text) == is_allcaps_heading(text)

IsPdfHeading(text) == MatchesHeadingPattern(text) \/ is_allcaps_heading(text)

HeadingPrefix == <<"#", "#", " ">>

\* str(uuid.uuid4()): an id no earlier call returned, modelled by a counter.
\* firstId is the first number unused when the run starts and k the number
\* of ids the run has drawn before this one.
\* an id source that hands out one id again and again
SameId(firstId, k) == firstId

uuid4(firstId, k) == firstId + k

\* the two identical "Save previous chunk" / "Save last chunk" blocks; a
\* chunk's id is drawn fresh (uuid4), modelled by the next unused number.
\* current_title is only tested for truth: None is written as the empty text.
SavePdfChunk(st) ==
    Let(Strip(Join(st.current_chunk, NL)), LAMBDA chunk_text :
        IF st.current_chunk # <<>> /\ st.current_title # <<>> /\ chunk_text # <<>>
        THEN Append(st.chunks,
                    [id |-> uuid4(st.firstId, Len(st.chunks)),
                     content |-> HeadingPrefix \o st.current_title \o NL \o NL
                                 \o postprocess_markdown(chunk_text, "pdf")])
        ELSE st.chunks)

\* sorted(font_sizes)[k], k counted from 0
SortedAt(font_sizes, k) ==
    CHOOSE v \in {font_sizes[i] : i \in 1..Len(font_sizes)} :
        /\ Cardinality({i \in 1..Len(font_sizes) : font_sizes[i] < v}) <= k
        /\ k < Cardinality({i \in 1..Len(font_sizes) : font_sizes[i] <= v})

\* lines 225-230: the font size at the 90th percentile of the sizes that
\* are not zero, or None (some = FALSE) when there is none; the caller
\* passes no min_heading_font of its own
min_heading_font(lines) ==
    LET font_sizes == SelectSeq([i \in 1..Len(lines) |-> lines[i].size],
                                LAMBDA size : size # 0)
    IN IF font_sizes = <<>> THEN [some |-> FALSE, size |-> 0]
       ELSE [some |-> TRUE,
             size |-> SortedAt(font_sizes, (9 * Len(font_sizes)) \div 10)]

\* an iteration that also takes a line for a heading when its font size
\* reaches min_heading_font
PdfLineBySize(st, line) ==
    Let(Strip(line.text), LAMBDA text :
        IF text = <<>> \/ is_garbage_line(text) THEN st
        ELSE IF \/ IsPdfHeading(text)
                \/ st.min_heading_font.some /\ line.size >= st.min_heading_font.size
        THEN [st EXCEPT !.chunks = SavePdfChunk(st),
                        !.current_title = text,
                        !.current_chunk = <<>>]
        ELSE [st EXCEPT !.current_chunk = Append(@, text)])

\* an iteration that starts a new title and keeps the lines gathered so far
PdfLineKeepsBody(st, line) ==
    Let(Strip(line.text), LAMBDA text :
        IF text = <<>> \/ is_garbage_line(text) THEN st
        ELSE IF IsPdfHeading(text)
        THEN [st EXCEPT !.chunks = SavePdfChunk(st),
                        !.current_title = text]
        ELSE [st EXCEPT !.current_chunk = Append(@, text)])

\* one iteration of "for i, line in enumerate(lines)"
PdfLine(st, line) ==
    Let(Strip(line.text), LAMBDA text :
        IF text = <<>> \/ is_garbage_line(text) THEN st
        ELSE IF IsPdfHeading(text)
        THEN [st EXCEPT !.chunks = SavePdfChunk(st),
                        !.current_title = text,
                        !.current_chunk = <<>>]
        ELSE [st EXCEPT !.current_chunk = Append(@, text)])

RECURSIVE PdfLoop(_, _, _)
PdfLoop(st, lines, i) ==
    IF i > Len(lines) THEN st
    ELSE Let(PdfLine(st, lines[i]), LAMBDA st2 : PdfLoop(st2, lines, i + 1))

\* "Merge small chunks (<300 chars) with previous"
MinChunkLen == 300

\* a merge pass that also merges a chunk of exactly 300 characters
MergeUpToLimit(merged_chunks, chunk) ==
    IF merged_chunks # <<>> /\ Len(chunk.content) <= MinChunkLen
    THEN [merged_chunks EXCEPT ![Len(merged_chunks)].content =
              @ \o NL \o NL \o chunk.content]
    ELSE Append(merged_chunks, chunk)

MergeChunk(merged_chunks, chunk) ==
    IF merged_chunks # <<>> /\ Len(chunk.content) < MinChunkLen
    THEN [merged_chunks EXCEPT ![Len(merged_chunks)].content =
              @ \o NL \o NL \o chunk.content]
    ELSE Append(merged_chunks, chunk)

RECURSIVE MergeLoop(_, _, _)
MergeLoop(merged_chunks, built, i) ==
    IF i > Len(built) THEN merged_chunks
    ELSE Let(MergeChunk(merged_chunks, built[i]), LAMBDA m : MergeLoop(m, built, i + 1))

\* the pre-pass of chunk_pdf_by_headings; it assigns line['text'], so the
\* caller's LineRecords are changed in place
JoinedLines(lines) ==
    [i \in 1..Len(lines) |->
        IF \E k \in 1..Len(lines[i].text) : lines[i].text[k] = "\n"
        THEN [lines[i] EXCEPT !.text = smart_join_pdf_lines(@)]
        ELSE lines[i]]

PdfSegments(lines, firstId) ==
    Let(PdfLoop([chunks |-> <<>>, current_chunk |-> <<>>,
                 current_title |-> <<>>, firstId |-> firstId,
                 min_heading_font |-> min_heading_font(lines)], lines, 1),
        LAMBDA st : SavePdfChunk(st))

\* a fallback that leaves the heading lines out
PdfFallbackBodyOnly(lines, firstId) ==
    LET kept == SelectSeq(lines, LAMBDA line :
                    Strip(line.text) # <<>> /\ ~IsPdfHeading(Strip(line.text)))
        all_content == Join([i \in 1..Len(kept) |-> Strip(kept[i].text)], NL)
    IN << [id |-> uuid4(firstId, 0),
            content |-> postprocess_markdown(all_content, "pdf")] >>

\* "Fallback: if no real headings found, aggregate all content"
PdfFallback(lines, firstId) ==
    LET kept == SelectSeq(lines, LAMBDA line :
                    Strip(line.text) # <<>> /\ ~is_garbage_line(line.text))
        all_content == Join([i \in 1..Len(kept) |-> Strip(kept[i].text)], NL)
    IN << [id |-> uuid4(firstId, 0),
            content |-> postprocess_markdown(all_content, "pdf")] >>

chunk_pdf_by_headings(lines0, firstId) ==
    Let(JoinedLines(lines0), LAMBDA lines :
    Let(PdfSegments(lines, firstId), LAMBDA segs :
    Let(IF segs = <<>> THEN PdfFallback(lines, firstId) ELSE segs, LAMBDA built :
        MergeLoop(<<>>, built, 1))))

-----------------------------------------------------------------------------
(* Heading segmenter, web variant, and chunk_document.                     *)

\* heading_pattern = (^|\n)(#{1,6} .*) : group 2 starts at the start of the
\* text or right after a "\n", with one to six '#' and then a space
IsHeadingStart(content, i) ==
    /\ (i = 1 \/ content[i - 1] = "\n")
    /\ \E k \in 1..6 :
          /\ i + k <= Len(content)
          /\ \A j \in 0..(k - 1) : content[i + j] = "#"
          /\ content[i + k] = " "

\* match.start(2) of every match of finditer, in order
HeadingStarts(content) ==
    SelectSeq([i \in 1..Len(content) |-> i], LAMBDA i : IsHeadingStart(content, i))

\* The slices content[start:end] of the web branch whose stripped text is
\* not empty: from one heading to the next (or the end) when there is a
\* heading, the pieces of content.split('\n\n') otherwise.
WebSpans(content) ==
    Let(HeadingStarts(content), LAMBDA starts :
    Let(IF starts # <<>>
        THEN [i \in 1..Len(starts) |->
                 <<starts[i], IF i + 1 <= Len(starts) THEN starts[i + 1] - 1
                              ELSE Len(content)>>]
        ELSE SplitRanges(content, NL \o NL), LAMBDA all :
        SelectSeq(all, LAMBDA r : Strip(Slice(content, r)) # <<>>)))

chunk_web(content, firstId) ==
    Let(WebSpans(content), LAMBDA sp :
        [i \in 1..Len(sp) |->
            [id |-> uuid4(firstId, i - 1),
             content |-> postprocess_markdown(Strip(Slice(content, sp[i])), "web")]])

\* A document's content is a str (kind "str"), a list of LineRecords (kind
\* "list") or None (kind "None"); a document without a "content" key (kind
\* "missing") reads as content "".  Only a non-empty list whose first
\* element is a dict takes the PDF branch; every other content is handed to
\* heading_pattern.finditer, which raises TypeError for anything but a str.
TakesPdfBranch(doc) == doc.kind = "list" /\ doc.content # <<>>

RaisesTypeError(doc) == ~TakesPdfBranch(doc) /\ doc.kind \notin {"str", "missing"}

top_n == 5

\* The tags a tagging library finds in a text.  Which words they are is the
\* library's business: a text that is not blank yields n tags, numbered in
\* the order the library ranks them, and a blank text yields none.
FoundTags(text, tier, n) ==
    [i \in 1..(IF Strip(text) = <<>> THEN 0 ELSE n) |-> <<tier, i>>]

\* a selection that forgets the limit
AllTags(found) == found

\* list(tags)[:top_n] and argsort()[::-1][:top_n]
TopTags(found) == SubSeq(found, 1, IF Len(found) < top_n THEN Len(found) ELSE top_n)

\* cap.nlp and cap.tfidf say whether the imports of lines 6-16 succeeded;
\* src.nlp and src.tfidf are the numbers of tags the two libraries find
extract_tags_spacy(text, cap, src) ==
    IF ~cap.nlp THEN <<>> ELSE TopTags(FoundTags(text, "nlp", src.nlp))

\* fit_transform raises ValueError("empty vocabulary ...") when no text
\* holds a term; the handler of line 123 answers with empty lists
extract_tags_tfidf(texts, cap, src) ==
    IF \/ ~cap.tfidf \/ texts = <<>>
       \/ \A i \in 1..Len(texts) : Strip(texts[i]) = <<>>
    THEN [i \in 1..Len(texts) |-> <<>>]
    ELSE IF \A i \in 1..Len(texts) : FoundTags(texts[i], "tfidf", src.tfidf) = <<>>
    THEN [i \in 1..Len(texts) |-> <<>>]
    ELSE [i \in 1..Len(texts) |-> TopTags(FoundTags(texts[i], "tfidf", src.tfidf))]

\* "Add tags using spaCy or TF-IDF": the first tier available fills
\* chunk["metadata"]["tags"], a key of the chunk's own copy of the metadata
TagChunks(built, cap, src) ==
    Let(IF ~cap.nlp /\ cap.tfidf
        THEN extract_tags_tfidf([i \in 1..Len(built) |-> built[i].content], cap, src)
        ELSE <<>>,
        LAMBDA tags_list :
            [i \in 1..Len(built) |->
                [id |-> built[i].id,
                 content |-> built[i].content,
                 tags |-> IF cap.nlp
                          THEN extract_tags_spacy(built[i].content, cap, src)
                          ELSE IF cap.tfidf THEN tags_list[i]
                          ELSE <<>>]])

chunk_document(doc, firstId, cap, src) ==
    TagChunks(IF TakesPdfBranch(doc) THEN chunk_pdf_by_headings(doc.content, firstId)
              ELSE chunk_web(doc.content, firstId),
              cap, src)

\* the number of uuid4 ids one call draws: one per chunk built, merged or not
IdsDrawn(doc) ==
    IF TakesPdfBranch(doc)
    THEN LET segs == PdfSegments(JoinedLines(doc.content), 1)
         IN IF segs = <<>> THEN 1 ELSE Len(segs)
    ELSE Len(WebSpans(doc.content))

-----------------------------------------------------------------------------
(* Author resolver, rule-based cascade: extract_author_from_text.          *)

By == <<"b", "y">>
And == <<"a", "n", "d">>
AuthorColon == <<"a", "u", "t", "h", "o", "r", ":">>
WrittenBy == <<"w", "r", "i", "t", "t", "e", "n", " ", "b", "y">>

\* a literal of a pattern compiled with re.IGNORECASE, at position i
MatchAtCI(s, i, p) ==
    i + Len(p) - 1 <= Len(s) /\ ToLower(SubSeq(s, i, i + Len(p) - 1)) = p

\* [A-Z][a-z]+ under re.IGNORECASE at position i: the letters from i on, at
\* least two of them.  The position after the match, 0 if there is none.
\* (Every pattern continues with whitespace or ends here, so no shorter
\* match of the greedy [a-z]+ can succeed where the longest one fails.)
NameEnd(s, i) ==
    Let(FirstIdx(s, i, LAMBDA j : s[j] \notin Letter), LAMBDA e :
        IF e - i >= 2 THEN e ELSE 0)

\* (?:\s NAME)* from position e, or (?:\s+ NAME)* if many: the position
\* after the last repetition that matches
RECURSIVE MoreNames(_, _, _)
MoreNames(s, e, many) ==
    Let(IF e <= Len(s) /\ s[e] \in WhiteSpace
        THEN Let(IF many THEN FirstNonSpace(s, e) ELSE e + 1, LAMBDA j :
                 IF j <= Len(s) THEN NameEnd(s, j) ELSE 0)
        ELSE 0, LAMBDA n :
        IF n = 0 THEN e ELSE MoreNames(s, n, many))

\* NAME(?:\s NAME)+ at position j: the position after the match, 0 if none
FullNameEnd(s, j) ==
    Let(IF j <= Len(s) THEN NameEnd(s, j) ELSE 0, LAMBDA e1 :
        IF e1 = 0 THEN 0
        ELSE Let(MoreNames(s, e1, FALSE), LAMBDA e2 : IF e2 > e1 THEN e2 ELSE 0))

\* (?:\s+and\s+ NAME(?:\s NAME)+)* from position e
RECURSIVE AndNames(_, _)
AndNames(s, e) ==
    Let(IF e <= Len(s)
        THEN Let(FirstNonSpace(s, e), LAMBDA k :
                 IF k > e /\ MatchAtCI(s, k, And)
                 THEN Let(FirstNonSpace(s, k + 3), LAMBDA m :
                          IF m > k + 3 THEN FullNameEnd(s, m) ELSE 0)
                 ELSE 0)
        ELSE 0, LAMBDA n :
        IF n = 0 THEN e ELSE AndNames(s, n))

\* The match of pattern p (1 to 4, lines 65, 75, 79, 83) that starts at
\* position i, as <<start of group 1, position after the match>>; <<>> if
\* the pattern does not match there.  Group 1 always reaches the match's end.
PatternLiteral(p) == IF p = 2 THEN AuthorColon ELSE IF p = 3 THEN WrittenBy ELSE By

MatchPattern(p, s, i) ==
    IF /\ MatchAtCI(s, i, PatternLiteral(p))
       /\ (p = 4 => (i = 1 \/ s[i - 1] \notin WordChar))
    THEN Let(FirstNonSpace(s, i + Len(PatternLiteral(p))), LAMBDA j :
         Let(IF p # 2 /\ j = i + Len(PatternLiteral(p)) THEN 0
             ELSE IF p = 4 THEN (IF j <= Len(s) THEN NameEnd(s, j) ELSE 0)
             ELSE FullNameEnd(s, j), LAMBDA e :
             IF e = 0 THEN <<>>
             ELSE IF p = 1 THEN <<j, AndNames(s, e)>>
             ELSE IF p = 4 THEN <<j, MoreNames(s, e, TRUE)>>
             ELSE <<j, e>>))
    ELSE <<>>

\* re.findall(pattern p, s): group 1 of the non-overlapping matches, left to
\* right, the search resuming where the previous match ended
RECURSIVE FindAllFrom(_, _, _)
FindAllFrom(p, s, i) ==
    Let(FirstIdx(s, i, LAMBDA j : MatchPattern(p, s, j) # <<>>), LAMBDA m :
        IF m > Len(s) THEN <<>>
        ELSE Let(MatchPattern(p, s, m), LAMBDA r :
                 <<SubSeq(s, r[1], r[2] - 1)>> \o FindAllFrom(p, s, r[2])))

FindAll(p, s) == FindAllFrom(p, s, 1)

\* \s+and\s+ under re.IGNORECASE at position i: the position after it, or 0
AndSepEnd(s, i) ==
    IF s[i] \in WhiteSpace
    THEN Let(FirstNonSpace(s, i), LAMBDA k :
             IF /\ MatchAtCI(s, k, And)
                /\ k + 3 <= Len(s)
                /\ s[k + 3] \in WhiteSpace
             THEN FirstNonSpace(s, k + 3) ELSE 0)
    ELSE 0

\* re.split(r'\s+and\s+', s, flags=re.IGNORECASE)
RECURSIVE SplitOnAndFrom(_, _)
SplitOnAndFrom(s, start) ==
    Let(FirstIdx(s, start, LAMBDA j : AndSepEnd(s, j) # 0), LAMBDA m :
        IF m > Len(s) THEN <<SubSeq(s, start, Len(s))>>
        ELSE <<SubSeq(s, start, m - 1)>> \o SplitOnAndFrom(s, AndSepEnd(s, m)))

\* lines 66-72: a match holding ' and ' is split into its authors
RECURSIVE ByAuthors(_, _)
ByAuthors(matches, i) ==
    IF i > Len(matches) THEN <<>>
    ELSE (IF Contains(ToLower(matches[i]), <<" ">> \o And \o <<" ">>)
          THEN SplitOnAndFrom(matches[i], 1)
          ELSE <<matches[i]>>) \o ByAuthors(matches, i + 1)

\* line 91, first alternative: ^[A-Z][a-z]+(?:\s+[A-Z][a-z]+)*$ on a stripped
\* line (no IGNORECASE here): capitalised words separated by whitespace
ProperCaseWord(w) ==
    Len(w) >= 2 /\ w[1] \in Upper /\ \A k \in 2..Len(w) : w[k] \in Lower

ProperCaseLine(line) ==
    /\ line # <<>>
    /\ Let(Words(line), LAMBDA ws : \A i \in 1..Len(ws) : ProperCaseWord(ws[i]))

\* line 92: ^[A-Z .\-]{4,}$
AllCapsLine(line) ==
    /\ Len(line) >= 4
    /\ \A k \in 1..Len(line) : line[k] \in Upper \cup {" ", ".", "-"}

NotAuthorLines ==
    { <<"b", "e", "y", "o", "n", "d", " ", "c", "r", "a", "c", "k", "i", "n", "g">>,
      <<"c", "o", "d", "i", "n", "g", " ", "i", "n", "t", "e", "r", "v", "i", "e", "w">>,
      <<"t", "e", "c", "h", "n", "i", "c", "a", "l", " ", "i", "n", "t", "e", "r", "v", "i", "e", "w">>,
      <<"c", "a", "r", "e", "e", "r", "c", "u", "p", " ", "l", "l", "c">>,
      <<"p", "a", "l", "o", " ", "a", "l", "t", "o", " ", "c", "a">>,
      <<"c", "o", "p", "y", "r", "i", "g", "h", "t">>,
      <<"a", "l", "l", " ", "r", "i", "g", "h", "t", "s", " ", "r", "e", "s", "e", "r", "v", "e", "d">>,
      <<"i", "n", "t", "r", "o", "d", "u", "c", "t", "i", "o", "n">>,
      <<"p", "r", "e", "f", "a", "c", "e">>,
      <<"t", "a", "b", "l", "e", " ", "o", "f", " ", "c", "o", "n", "t", "e", "n", "t", "s">> }

\* lines 88-97: the stripped lines of the text that look like a name
LooksLikeAuthorLine(line) ==
    /\ ProperCaseLine(line) \/ AllCapsLine(line)
    /\ Let(Len(Words(line)), LAMBDA n : 2 <= n /\ n <= 4)
    /\ ToLower(line) \notin NotAuthorLines

AuthorLines(text) ==
    Let(Split(text, NL), LAMBDA lines :
        SelectSeq([i \in 1..Len(lines) |-> Strip(lines[i])], LooksLikeAuthorLine))

CommonWords ==
    { <<"b", "y">>,
      <<"a", "u", "t", "h", "o", "r">>,
      <<"w", "r", "i", "t", "t", "e", "n">>,
      <<"c", "o", "-", "a", "u", "t", "h", "o", "r">>,
      <<"c", "o", "n", "t", "r", "i", "b", "u", "t", "o", "r", "s">> }

\* lines 100-111: strip, drop what is shorter than 3 characters or a common
\* word, keep the first of the entries that are equal ignoring case
RECURSIVE UniqueAuthors(_, _, _)
UniqueAuthors(authors, i, unique_authors) ==
    IF i > Len(authors) THEN unique_authors
    ELSE UniqueAuthors(authors, i + 1,
            Let(Strip(authors[i]), LAMBDA author :
                IF \/ Len(author) < 3
                   \/ ToLower(author) \in CommonWords
                   \/ \E k \in 1..Len(unique_authors) :
                         ToLower(author) = ToLower(unique_authors[k])
                THEN unique_authors
                ELSE Append(unique_authors, author)))

-----------------------------------------------------------------------------
(* Human-name validator: is_valid_human_name, clean_and_validate_authors.  *)

\* characters the pattern [^a-zA-Z\s\.\'-] does not match
NameChars == Letter \cup WhiteSpace \cup {".", "'", "-"}

\* part[0].isupper() and part[1:].islower(), asked of the parts longer than
\* one character
Capitalised(part) ==
    part[1] \in Upper /\ IsLowerStr(SubSeq(part, 2, Len(part)))

\* a validator whose acronym rule stops at two words
AcronymRuleUpToTwoWords(name0) ==
    Let(Strip(name0), LAMBDA name :
        IF Len(name) < 5 THEN FALSE
        ELSE IF IsUpperStr(SelectSeq(name, LAMBDA c : c # " ")) /\ Len(Words(name)) <= 2
             THEN FALSE
        ELSE IF \E k \in 1..Len(name) : name[k] \notin NameChars THEN FALSE
        ELSE Let(Words(name), LAMBDA parts :
             IF Len(parts) < 2 THEN FALSE
             ELSE \A k \in 1..Len(parts) : Len(parts[k]) > 1 => Capitalised(parts[k])))

is_valid_human_name(name0) ==
    Let(Strip(name0), LAMBDA name :
        IF Len(name) < 5 THEN FALSE
        ELSE IF IsUpperStr(SelectSeq(name, LAMBDA c : c # " ")) /\ Len(Words(name)) <= 3
             THEN FALSE
        ELSE IF \E k \in 1..Len(name) : name[k] \notin NameChars THEN FALSE
        ELSE Let(Words(name), LAMBDA parts :
             IF Len(parts) < 2 THEN FALSE
             ELSE IF ~(\A k \in 1..Len(parts) :
                          Len(parts[k]) > 1 => Capitalised(parts[k]))
                  THEN FALSE
             ELSE TRUE))

clean_and_validate_authors(authors_list) ==
    SelectSeq([i \in 1..Len(authors_list) |-> Strip(authors_list[i])],
              is_valid_human_name)

\* A value that is a str or None
NoText == [some |-> FALSE, text |-> <<>>]
Text(t) == [some |-> TRUE, text |-> t]

\* Python truth of a str-or-None value
Truthy(v) == v.some /\ v.text # <<>>

extract_author_from_text(text) ==
    Let(ByAuthors(FindAll(1, text), 1) \o FindAll(2, text) \o FindAll(3, text)
            \o FindAll(4, text) \o AuthorLines(text), LAMBDA authors :
    Let(clean_and_validate_authors(UniqueAuthors(authors, 1, <<>>)),
        LAMBDA valid_authors :
            IF valid_authors # <<>> THEN Text(Join(valid_authors, <<",", " ">>))
            ELSE NoText))

-----------------------------------------------------------------------------
(* Author resolver: get_author, extract_author_using_openai and the three  *)
(* extraction functions that call get_author and store what it returns.    *)

AuthorModes == {"cost_saving", "balanced", "accuracy"}

\* PROMPT_CONFIGS[mode]["content_length"]
content_length(mode) ==
    CASE mode = "cost_saving" -> 2000
      [] mode = "balanced" -> 5000
      [] mode = "accuracy" -> 10000

\* get_author, lines 160-163: the preview that goes into the prompt
TruncatedPreview(content_preview, mode) ==
    IF Len(content_preview) > content_length(mode)
    THEN SubSeq(content_preview, 1, content_length(mode)) \o <<".", ".", ".">>
    ELSE content_preview

\* a get_author that always falls through to the LLM
NeverShortCircuits(author_found) == FALSE

\* get_author, line 156: "if author: return author"
ShortCircuits(author_found) == Truthy(author_found)

\* The exceptions the request can end in: client construction without a
\* valid key, the completion call timing out or being rate limited, and a
\* response whose message content is None, on which .strip() fails
LlmErrors == {"AuthenticationError", "APITimeoutError", "RateLimitError", "AttributeError"}

\* a handler that catches the client library's errors only
CaughtApiErrorsOnly(e) == e \in LlmErrors \ {"AttributeError"}

\* extract_author_using_openai, line 142: "except Exception" around the
\* client construction, the request and the reading of the response
Caught(e) == e \in LlmErrors

\* extract_author_using_openai, line 141: the response's content, stripped
LlmAnswer(content) == Text(Strip(content))

Callers == {"extract_from_url", "extract_structured_from_pdf", "extract_from_pdf_plumber"}

PdfCallers == {"extract_structured_from_pdf", "extract_from_pdf_plumber"}

\* What the caller stores once get_author has returned.  The two
\* PDF functions (extract.py lines 266, 336-345 and 494-500) compute a method
\* and store "author_guess or ''"; extract_from_url (lines 230-247) stores
\* the returned value as it is and no method.
Attach(fn, guess, mode) ==
    IF fn \in PdfCallers
    THEN [author |-> IF Truthy(guess) THEN guess ELSE Text(<<>>),
          method |-> IF Truthy(guess) THEN "rule_based+openai_" \o mode
                     ELSE "fallback"]
    ELSE [author |-> guess, method |-> None]

NoReply == [kind |-> "none", content |-> <<>>, error |-> None]
NoRequest == [issued |-> FALSE, mode |-> None, content_preview |-> <<>>]
NoOutcome == [author |-> NoText, method |-> None]

-----------------------------------------------------------------------------
(* Title derivation and the ingestion formatter: extract_title_from_content, *)
(* format_markdown and format_chunks_for_ingestion.                        *)

\* s.replace(old, new)
Replace(s, old, new) == Join(Split(s, old), new)

\* the titles the metadata rule does not accept, compared after strip().lower()
PlaceholderTitles ==
    { <<"n","o"," ","t","i","t","l","e"," ","f","o","u","n","d">>,
      <<"u","n","t","i","t","l","e","d">>,
      <<>> }

MetaTitleLimit == 120
FirstLineLimit == 80

\* the number of consecutive '#' of line from position p on
HashRun(line, p) == FirstIdx(line, p, LAMBDA j : line[j] # "#") - p

\* re.match(r'^\s*#{1,6}\s+.+', line): optional whitespace, one to six '#',
\* a whitespace character, and at least one more character
IsTitleHeading(line) ==
    Let(FirstNonSpace(line, 1), LAMBDA p :
    Let(HashRun(line, p), LAMBDA h :
        /\ h \in 1..6
        /\ p + h + 1 <= Len(line)
        /\ line[p + h] \in WhiteSpace))

\* a title that keeps the heading marker
HeadingTextKeepsHashes(line) == Strip(line)

\* re.sub(r'^#{1,6}\s+', '', line).strip(): the pattern is anchored at the
\* first character of the line, so an indented heading keeps its '#'
HeadingText(line) ==
    Let(HashRun(line, 1), LAMBDA h :
        IF h \in 1..6 /\ h + 1 <= Len(line) /\ line[h + 1] \in WhiteSpace
        THEN Strip(SubSeq(line, FirstNonSpace(line, h + 1), Len(line)))
        ELSE Strip(line))

Untitled == <<"U","n","t","i","t","l","e","d">>

Truncate(s, n) == SubSeq(s, 1, IF Len(s) < n THEN Len(s) ELSE n)

\* meta_title is metadata.get("title") (NoText when metadata is empty or has
\* no title)
extract_title_from_content(content, meta_title) ==
    IF Truthy(meta_title) /\ ToLower(Strip(meta_title.text)) \notin PlaceholderTitles
    THEN Truncate(Strip(meta_title.text), MetaTitleLimit)
    ELSE Let(Split(Strip(content), NL), LAMBDA lines :
         Let(FirstIdx(lines, 1, LAMBDA i : IsTitleHeading(lines[i])), LAMBDA h :
         Let(FirstIdx(lines, 1, LAMBDA i : Strip(lines[i]) # <<>>), LAMBDA f :
            IF h <= Len(lines) THEN HeadingText(lines[h])
            ELSE IF f <= Len(lines) THEN Truncate(Strip(lines[f]), FirstLineLimit)
            ELSE Untitled)))

\* re.sub(r'(?<!\n)```', r'\n```', s), from position i on
RECURSIVE FenceOnNewLine(_, _)
FenceOnNewLine(s, i) ==
    Let(FirstIdx(s, i, LAMBDA j : MatchAt(s, j, Fence) /\ (j = 1 \/ s[j - 1] # "\n")),
        LAMBDA m :
            IF m > Len(s) THEN SubSeq(s, i, Len(s))
            ELSE SubSeq(s, i, m - 1) \o NL \o Fence \o FenceOnNewLine(s, m + 3))

\* re.sub(r'```(?!\n)', r'```\n', s), from position i on
RECURSIVE NewLineAfterFence(_, _)
NewLineAfterFence(s, i) ==
    Let(FirstIdx(s, i, LAMBDA j : MatchAt(s, j, Fence)
                                  /\ (j + 3 > Len(s) \/ s[j + 3] # "\n")),
        LAMBDA m :
            IF m > Len(s) THEN SubSeq(s, i, Len(s))
            ELSE SubSeq(s, i, m - 1) \o Fence \o NL \o NewLineAfterFence(s, m + 3))

\* whether '#+ .+' matches somewhere in a line: a '#', a space, one more character
HasHeadingMark(line) ==
    \E j \in 1..(Len(line) - 2) : line[j] = "#" /\ line[j + 1] = " "

\* re.sub(r'(#+ .+)\n(?!\n)', r'\1\n\n', s): the "\n" that ends a line with
\* a heading mark is doubled unless another "\n" follows it
HeadingSpacing(s) ==
    Let(SplitRanges(s, NL), LAMBDA lr :
        KeepWhere(
            [k \in 1..(2 * Len(s)) |->
                IF k % 2 = 1 THEN s[(k + 1) \div 2] ELSE "\n"],
            LAMBDA k :
                \/ k % 2 = 1
                \/ /\ s[k \div 2] = "\n"
                   /\ (k \div 2 = Len(s) \/ s[k \div 2 + 1] # "\n")
                   /\ \E x \in 1..Len(lr) :
                         /\ lr[x][2] + 1 = k \div 2
                         /\ HasHeadingMark(Slice(s, lr[x]))))

\* re.sub(r'(?<!\n)\n(?=\S)', '\n\n', s)
ParagraphSpacing(s) ==
    KeepWhere(
        [k \in 1..(2 * Len(s)) |->
            IF k % 2 = 1 THEN s[(k + 1) \div 2] ELSE "\n"],
        LAMBDA k :
            \/ k % 2 = 1
            \/ /\ s[k \div 2] = "\n"
               /\ (k \div 2 = 1 \/ s[k \div 2 - 1] # "\n")
               /\ k \div 2 < Len(s)
               /\ s[k \div 2 + 1] \notin WhiteSpace)

format_markdown(text) ==
    Let(Replace(text, <<"\\", "n">>, NL), LAMBDA t1 :
    Let(Replace(Replace(t1, <<"\r", "\n">>, NL), <<"\r">>, NL), LAMBDA t2 :
    Let(NewLineAfterFence(FenceOnNewLine(t2, 1), 1), LAMBDA t3 :
    Let(HeadingSpacing(t3), LAMBDA t4 : Strip(ParagraphSpacing(t4))))))

UntitledChapter == Untitled \o <<" ","C","h","a","p","t","e","r">>

\* One Item per chunk, built in the order of the list ("for chunk in chunks").
\* A chunk's metadata is a copy of the document's plus its tags; the
\* documents modelled here carry no title.
Item(chunk) ==
    [title |-> Let(extract_title_from_content(chunk.content, NoText), LAMBDA title_guess :
                   IF title_guess # <<>> THEN title_guess ELSE UntitledChapter),
     content |-> format_markdown(chunk.content)]

\* a formatter that walks the list from its end
FormatReversed(chunkList) ==
    [i \in 1..Len(chunkList) |-> Item(chunkList[Len(chunkList) + 1 - i])]

format_chunks_for_ingestion(chunkList) ==
    [i \in 1..Len(chunkList) |-> Item(chunkList[i])]

-----------------------------------------------------------------------------
(* Inputs of the normaliser: texts of at most MaxWrapLines lines drawn     *)
(* from WrapVocab, joined by "\n".                                         *)

MaxWrapLines == 3

WrapVocab ==
    { <<>>,                                   \* blank line
      <<" ", " ">>,                           \* whitespace-only line
      Fence,                                  \* explicit fence
      <<" ", BQ, BQ, BQ, "p", "y">>,          \* indented fence with info string
      <<"a", "b">>,                           \* prose
      <<"x", "=", "1">>,                      \* code-like in web mode only
      <<"$", " ", "l", "s">>,                 \* shell prompt: code-like in both modes
      <<" ", " ", " ", " ", "y">> }           \* 4 leading spaces: code-like in both modes

LinesUpTo(vocab, n) == UNION { [1..k -> vocab] : k \in 0..n }

WrapTexts == { Join(ls, NL) : ls \in LinesUpTo(WrapVocab, MaxWrapLines) }

Modes == {"web", "pdf"}

NotRechunked == [of |-> 0, chunks |-> <<>>]

\* neither spaCy nor scikit-learn could be imported
NoTagger == [nlp |-> FALSE, tfidf |-> FALSE]
NoTags == [nlp |-> 0, tfidf |-> 0]

WrapIdle ==
    /\ wrapText = <<>> /\ wrapMode = "web" /\ wrapCalls = 0
    /\ wrapOnce = <<>> /\ wrapTwice = <<>>

ChunkIdle ==
    /\ document = [kind |-> "str", content |-> <<>>]
    /\ chunkPc = "start" /\ chunks = <<>> /\ spans = <<>> /\ raised = None
    /\ rechunked = NotRechunked /\ nextId = 1
    /\ items = <<>> /\ capability = NoTagger /\ tagSource = NoTags

AuthorIdle ==
    /\ preview = <<>> /\ authorMode = "balanced" /\ caller = "extract_from_url"
    /\ authorPc = "idle" /\ llmCalls = 0 /\ llmRequest = NoRequest
    /\ llmReply = NoReply /\ author_guess = NoText /\ outcome = NoOutcome
    /\ escaped = None

NameIdle == candidate = <<>> /\ nameChecked = FALSE /\ nameValid = FALSE

PostIdle == postText = <<>> /\ postMode = "web" /\ postDone = FALSE /\ postOut = <<>>

TitleIdle ==
    /\ titleContent = <<>> /\ titleMeta = NoText
    /\ titleDone = FALSE /\ titleOut = <<>>

ItemIdle == fmtChunks = <<>> /\ fmtDone = FALSE /\ fmtItems = <<>>

MergeIdle == mergeIn = <<>> /\ mergeDone = FALSE /\ mergeOut = <<>>

ExtractIdle ==
    /\ entry = None /\ fitz = FALSE /\ spanCount = 0
    /\ opens = [fitz |-> FALSE, pdfplumber |-> FALSE]
    /\ resolved = <<>> /\ extractPc = "idle"

JoinIdle == joinText = <<>> /\ joinDone = FALSE /\ joinOut = <<>>

WrapInit ==
    /\ wrapText \in WrapTexts
    /\ wrapMode \in Modes
    /\ wrapCalls = 0
    /\ wrapOnce = <<>>
    /\ wrapTwice = <<>>
    /\ ChunkIdle /\ AuthorIdle /\ NameIdle /\ PostIdle /\ TitleIdle /\ ItemIdle /\ MergeIdle /\ ExtractIdle /\ JoinIdle

\* auto_wrap_code_blocks(text, mode)
WrapFirst ==
    /\ wrapCalls = 0
    /\ wrapOnce' = auto_wrap_code_blocks(wrapText, wrapMode)
    /\ wrapCalls' = 1
    /\ UNCHANGED <<wrapText, wrapMode, wrapTwice, chunkVars, authorVars, nameVars, postVars, titleVars, itemVars, mergeVars, extractVars, joinVars>>

\* auto_wrap_code_blocks applied to the text it returned
WrapSecond ==
    /\ wrapCalls = 1
    /\ wrapTwice' = auto_wrap_code_blocks(wrapOnce, wrapMode)
    /\ wrapCalls' = 2
    /\ UNCHANGED <<wrapText, wrapMode, wrapOnce, chunkVars, authorVars, nameVars, postVars, titleVars, itemVars, mergeVars, extractVars, joinVars>>

WrapNext == WrapFirst \/ WrapSecond

SpecWrap == WrapInit /\ [][WrapNext]_vars

-----------------------------------------------------------------------------
(* chunk_document as a state machine: a document is chunked once, and one  *)
(* of the returned chunks may be chunked again as a document of its own.   *)

MaxDocLines == 4

\* the lines a web document is made of
WebVocab ==
    << <<>>,                          \* blank line
       Fence,                         \* explicit fence
       <<"#", " ", "T">>,             \* heading line
       <<"a", "b">>,                  \* prose
       <<"-", " ", "c">>,             \* bullet
       <<"x", "=", "1">> >>           \* code-like line

\* the web document whose lines are the entries ks of WebVocab
WebDoc(ks) ==
    [kind |-> "str", content |-> Join([i \in 1..Len(ks) |-> WebVocab[ks[i]]], NL)]

MaxPdfLines == 3

LongLine == [i \in 1..MinChunkLen |-> "a"]

\* the texts a PDF document's LineRecords are made of
PdfVocab ==
    << <<>>,                                               \* blank record
       <<"C","h","a","p","t","e","r"," ","1">>,            \* heading by pattern
       <<"A","L","L"," ","C","A","P","S">>,                \* all-caps heading
       <<"b","o","d","y">>,                                \* short body line
       <<"w","r","a","p","\n","p","e","d"," ","x">>,       \* text holding a line break
       LongLine >>                                         \* body line of MinChunkLen characters

\* the PDF document whose records have the texts ks of PdfVocab; record
\* number big (if any) is set in a 14 pt font, the others in 10 pt
PdfDoc(ks, big) ==
    [kind |-> "list",
     content |-> [i \in 1..Len(ks) |->
                    [text |-> PdfVocab[ks[i]], size |-> IF i = big THEN 14 ELSE 10]]]

\* a document with two headed sections
IntroDoc ==
    [kind |-> "str",
     content |-> <<"#"," ","I","n","t","r","o","\n","H","e","l","l","o","\n","\n",
                   "#"," ","D","e","t","a","i","l","s","\n","W","o","r","l","d">>]

\* a PDF document of three headed sections: two of MinChunkLen characters
\* and more, then a short one
ThreeSectionDoc == PdfDoc(<<2, 6, 3, 6, 2, 4>>, 1)

\* a PDF document whose records carry no font size (size 0)
UnsizedDoc ==
    [kind |-> "list",
     content |-> [i \in 1..3 |-> [text |-> PdfVocab[<<4, 2, 4>>[i]], size |-> 0]]]

\* {"content": None} and a document without a "content" key
NoContentDocs == { [kind |-> k, content |-> <<>>] : k \in {"None", "missing"} }

ChunkInit ==
    /\ \/ \E ks \in LinesUpTo(1..Len(WebVocab), MaxDocLines) : document = WebDoc(ks)
       \/ \E n \in 0..MaxPdfLines :
             \E ks \in [1..n -> 1..Len(PdfVocab)] : \E big \in 0..n :
                document = PdfDoc(ks, big)
       \/ document = IntroDoc
       \/ document = ThreeSectionDoc
       \/ document \in NoContentDocs
    /\ chunkPc = "start" /\ chunks = <<>> /\ spans = <<>> /\ raised = None
    /\ rechunked = NotRechunked /\ nextId = 1
    /\ items = <<>> /\ capability = NoTagger /\ tagSource = NoTags
    /\ WrapIdle /\ AuthorIdle /\ NameIdle /\ PostIdle /\ TitleIdle /\ ItemIdle /\ MergeIdle /\ ExtractIdle /\ JoinIdle

\* chunk_document(document) returns
ChunkDocument ==
    /\ chunkPc = "start"
    /\ ~RaisesTypeError(document)
    /\ chunkPc' = "returned"
    /\ chunks' = chunk_document(document, nextId, capability, tagSource)
    /\ spans' = IF TakesPdfBranch(document) THEN <<>> ELSE WebSpans(document.content)
    /\ nextId' = nextId + IdsDrawn(document)
    /\ document' = IF TakesPdfBranch(document)
                   THEN [document EXCEPT !.content = JoinedLines(@)]
                   ELSE document
    /\ UNCHANGED <<raised, rechunked, items, capability, tagSource, wrapVars, authorVars, nameVars, postVars, titleVars, itemVars, mergeVars, extractVars, joinVars>>

\* chunk_document(document) raises
ChunkDocumentRaises ==
    /\ chunkPc = "start"
    /\ RaisesTypeError(document)
    /\ chunkPc' = "raised"
    /\ raised' = "TypeError"
    /\ UNCHANGED <<document, chunks, spans, rechunked, nextId, items, capability,
                   tagSource, wrapVars, authorVars, nameVars, postVars, titleVars, itemVars, mergeVars, extractVars, joinVars>>

\* chunk_document({"content": chunks[i]["content"]})
Rechunk(i) ==
    /\ chunkPc = "returned" /\ rechunked.of = 0
    /\ i \in 1..Len(chunks)
    /\ LET doc == [kind |-> "str", content |-> chunks[i].content]
       IN /\ rechunked' = [of |-> i,
                           chunks |-> chunk_document(doc, nextId, capability, tagSource)]
          /\ nextId' = nextId + IdsDrawn(doc)
    /\ UNCHANGED <<document, chunkPc, chunks, spans, raised, items, capability,
                   tagSource, wrapVars, authorVars, nameVars, postVars, titleVars, itemVars, mergeVars, extractVars, joinVars>>

\* format_chunks_for_ingestion(chunks), on the list as chunk_document
\* returned it (generate_ingestion_payload)
FormatChunks ==
    /\ chunkPc = "returned" /\ rechunked.of = 0
    /\ items' = format_chunks_for_ingestion(chunks)
    /\ chunkPc' = "formatted"
    /\ UNCHANGED <<document, chunks, spans, raised, rechunked, nextId, capability,
                   tagSource, wrapVars, authorVars, nameVars, postVars, titleVars, itemVars, mergeVars, extractVars, joinVars>>

ChunkNext ==
    \/ ChunkDocument
    \/ ChunkDocumentRaises
    \/ \E i \in 1..MaxDocLines + MaxPdfLines : Rechunk(i)
    \/ FormatChunks

SpecChunk == ChunkInit /\ [][ChunkNext]_vars

-----------------------------------------------------------------------------
(* chunk_document with the tagging libraries as part of the environment:   *)
(* documents of at most MaxTagDocLines lines or records, any combination   *)
(* of available libraries, and libraries that find no tag, fewer than      *)
(* top_n or more than top_n tags in a text.                                *)

MaxTagDocLines == 2

TagCounts == {0, 2, top_n + 2}

TagInit ==
    /\ \/ \E ks \in LinesUpTo(1..Len(WebVocab), MaxTagDocLines) : document = WebDoc(ks)
       \/ \E ks \in LinesUpTo(1..Len(PdfVocab), MaxTagDocLines) : document = PdfDoc(ks, 0)
       \/ document = IntroDoc
       \/ document = ThreeSectionDoc
       \/ document \in NoContentDocs
    /\ capability \in [nlp : BOOLEAN, tfidf : BOOLEAN]
    /\ tagSource \in [nlp : TagCounts, tfidf : TagCounts]
    /\ chunkPc = "start" /\ chunks = <<>> /\ spans = <<>> /\ raised = None
    /\ rechunked = NotRechunked /\ nextId = 1 /\ items = <<>>
    /\ WrapIdle /\ AuthorIdle /\ NameIdle /\ PostIdle /\ TitleIdle /\ ItemIdle /\ MergeIdle /\ ExtractIdle /\ JoinIdle

SpecTags == TagInit /\ [][ChunkNext]_vars

-----------------------------------------------------------------------------
(* postprocess_markdown on its own: texts of at most MaxPostLines lines    *)
(* drawn from PostVocab, in both modes.                                    *)

MaxPostLines == 3

PostVocab ==
    { <<>>,                                   \* blank line
      <<" ", " ">>,                           \* whitespace-only line
      Fence,                                  \* explicit fence
      <<" ", BQ, BQ, BQ, "p", "y">>,          \* indented fence with info string
      <<"a", "b">>,                           \* prose
      <<"a", " ", " ", "b">>,                 \* two spaces in a row
      <<"-", " ", "c">>,                      \* bullet
      <<" ", " ", " ", " ", "y">> }           \* indented by four spaces

PostInit ==
    /\ postText \in { Join(ls, NL) : ls \in LinesUpTo(PostVocab, MaxPostLines) }
    /\ postMode \in Modes
    /\ postDone = FALSE
    /\ postOut = <<>>
    /\ WrapIdle /\ ChunkIdle /\ AuthorIdle /\ NameIdle /\ TitleIdle /\ ItemIdle /\ MergeIdle /\ ExtractIdle /\ JoinIdle

\* postprocess_markdown(text, mode)
Postprocess ==
    /\ ~postDone
    /\ postOut' = postprocess_markdown(postText, postMode)
    /\ postDone' = TRUE
    /\ UNCHANGED <<postText, postMode, wrapVars, chunkVars, authorVars, nameVars, titleVars, itemVars, mergeVars, extractVars, joinVars>>

PostNext == Postprocess

SpecPost == PostInit /\ [][PostNext]_vars

-----------------------------------------------------------------------------
(* extract_title_from_content on its own: contents of at most              *)
(* MaxTitleLines lines of TitleVocab, with and without a metadata title.   *)

MaxTitleLines == 3

TitleVocab ==
    { <<>>,                                   \* blank line
      <<"#", " ", "T">>,                      \* heading line
      <<" ", " ", "#", "#", " ", "U">>,       \* indented heading line
      <<"#", "x">>,                           \* '#' without a space: no heading
      <<"a", "b", " ">>,                      \* prose
      [i \in 1..(FirstLineLimit + 1) |-> "a"] }   \* a line longer than the limit

TitleMetas ==
    { NoText,                                                  \* no title
      Text(<<>>),
      Text(<<"N","o"," ","T","i","t","l","e"," ","F","o","u","n","d">>),
      Text(<<" ","U","N","T","I","T","L","E","D"," ">>),
      Text(<<" ","D","o","c"," ">>),
      Text([i \in 1..(MetaTitleLimit + 1) |-> "d"]) }

TitleInit ==
    /\ titleContent \in { Join(ls, NL) : ls \in LinesUpTo(TitleVocab, MaxTitleLines) }
    /\ titleMeta \in TitleMetas
    /\ titleDone = FALSE
    /\ titleOut = <<>>
    /\ WrapIdle /\ ChunkIdle /\ AuthorIdle /\ NameIdle /\ PostIdle /\ ItemIdle /\ MergeIdle /\ ExtractIdle /\ JoinIdle

\* extract_title_from_content(content, metadata)
ExtractTitle ==
    /\ ~titleDone
    /\ titleOut' = extract_title_from_content(titleContent, titleMeta)
    /\ titleDone' = TRUE
    /\ UNCHANGED <<titleContent, titleMeta, wrapVars, chunkVars, authorVars, nameVars, postVars, itemVars, mergeVars, extractVars, joinVars>>

TitleNext == ExtractTitle

SpecTitle == TitleInit /\ [][TitleNext]_vars

-----------------------------------------------------------------------------
(* Author resolution as a state machine: an extraction function calls      *)
(* get_author on a preview; the one suspension point is the LLM request.   *)

MaxPreviewLines == 3

\* the lines a preview is made of
PreviewVocab ==
    << <<"B","y"," ","J","a","n","e"," ","S","m","i","t","h">>,     \* byline on its own
       <<".",".",".">>,                                             \* no byline pattern
       <<>>,                                                        \* blank line
       <<"m","o","r","e"," ","t","e","x","t">>,                     \* prose
       <<"N","A","S","A"," ","J","P","L">>,                         \* all-caps line
       <<"A","u","t","h","o","r",":"," ","A","l"," ","R","o","e">> >>

PreviewOf(ks) == Join([i \in 1..Len(ks) |-> PreviewVocab[ks[i]]], NL)

\* the contents a response of the LLM can carry
LlmContents ==
    { <<" ","A","n","n"," ","L","e","e","\n">>,
      <<"U","n","k","n","o","w","n">>,
      <<>>,
      <<" ">> }

\* a preview of one character more than the smallest content_length, with
\* nothing in it for the rule-based pass
LongPreview == [i \in 1..(content_length("cost_saving") + 1) |-> "x"]

AuthorInit ==
    /\ \/ \E ks \in LinesUpTo(1..Len(PreviewVocab), MaxPreviewLines) : preview = PreviewOf(ks)
       \/ preview = LongPreview
    /\ authorMode \in AuthorModes
    /\ caller \in Callers
    /\ authorPc = "start" /\ llmCalls = 0 /\ llmRequest = NoRequest
    /\ llmReply = NoReply /\ author_guess = NoText /\ outcome = NoOutcome
    /\ escaped = None
    /\ WrapIdle /\ ChunkIdle /\ NameIdle /\ PostIdle /\ TitleIdle /\ ItemIdle /\ MergeIdle /\ ExtractIdle /\ JoinIdle

\* get_author returns what the rule-based cascade found (lines 155-157), and
\* the caller stores it
ResolveByRule ==
    /\ authorPc = "start"
    /\ \E found \in {extract_author_from_text(preview)} :
          /\ ShortCircuits(found)
          /\ author_guess' = found
          /\ outcome' = Attach(caller, found, authorMode)
    /\ authorPc' = "attached"
    /\ UNCHANGED <<preview, authorMode, caller, llmCalls, llmRequest, llmReply, escaped>>
    /\ UNCHANGED <<wrapVars, chunkVars, nameVars, postVars, titleVars, itemVars, mergeVars, extractVars, joinVars>>

\* get_author falls through to extract_author_using_openai (lines 159-166),
\* which issues the request (lines 130-140)
IssueRequest ==
    /\ authorPc = "start"
    /\ ~ShortCircuits(extract_author_from_text(preview))
    /\ authorPc' = "requesting"
    /\ llmCalls' = llmCalls + 1
    /\ llmRequest' = [issued |-> TRUE, mode |-> authorMode,
                      content_preview |-> TruncatedPreview(preview, authorMode)]
    /\ UNCHANGED <<preview, authorMode, caller, llmReply, author_guess, outcome, escaped>>
    /\ UNCHANGED <<wrapVars, chunkVars, nameVars, postVars, titleVars, itemVars, mergeVars, extractVars, joinVars>>

\* the response arrives: its stripped content is returned (line 141) through
\* get_author to the caller, which stores it
LlmResponds(content) ==
    /\ authorPc = "requesting"
    /\ llmReply' = [kind |-> "content", content |-> content, error |-> None]
    /\ author_guess' = LlmAnswer(content)
    /\ outcome' = Attach(caller, LlmAnswer(content), authorMode)
    /\ authorPc' = "attached"
    /\ UNCHANGED <<preview, authorMode, caller, llmCalls, llmRequest, escaped>>
    /\ UNCHANGED <<wrapVars, chunkVars, nameVars, postVars, titleVars, itemVars, mergeVars, extractVars, joinVars>>

\* the request ends in an exception: the handler of line 142 returns None,
\* which get_author returns to the caller; an exception the handler does not
\* catch leaves get_author
LlmRaises(e) ==
    /\ authorPc = "requesting"
    /\ llmReply' = [kind |-> "exception", content |-> <<>>, error |-> e]
    /\ IF Caught(e)
       THEN /\ author_guess' = NoText
            /\ outcome' = Attach(caller, NoText, authorMode)
            /\ authorPc' = "attached"
            /\ UNCHANGED escaped
       ELSE /\ escaped' = e
            /\ authorPc' = "raised"
            /\ UNCHANGED <<author_guess, outcome>>
    /\ UNCHANGED <<preview, authorMode, caller, llmCalls, llmRequest>>
    /\ UNCHANGED <<wrapVars, chunkVars, nameVars, postVars, titleVars, itemVars, mergeVars, extractVars, joinVars>>

AuthorNext ==
    \/ ResolveByRule
    \/ IssueRequest
    \/ \E content \in LlmContents : LlmResponds(content)
    \/ \E e \in LlmErrors : LlmRaises(e)

SpecAuthor == AuthorInit /\ [][AuthorNext]_vars

-----------------------------------------------------------------------------
(* is_valid_human_name applied to one candidate name.                      *)

MaxNameLen == 5

\* an uppercase letter, a lowercase letter, the separator, an allowed
\* punctuation mark and a character that is not allowed
NameAlphabet == {"A", "b", " ", ".", "1"}

\* names longer than MaxNameLen that the validator is known by
NamedCandidates ==
    << <<"A","l","i","n","e"," ","L","e","r","n","e","r">>,
       <<"J","."," ","D","o","e">>,
       <<"N","A","S","A"," ","J","P","L">>,
       <<"C"," ","C"," ","I">>,
       <<"C"," ","C"," ","I"," ","J">>,
       <<"J","a","n","e","\n","S","m","i","t","h">>,
       <<"O","'","N","e","i","l"," ","B","o">>,
       <<"A","n","n","-","M","a","y"," ","L","e","e">> >>

NameInit ==
    /\ \/ \E n \in 0..MaxNameLen : \E f \in [1..n -> NameAlphabet] : candidate = f
       \/ \E k \in 1..Len(NamedCandidates) : candidate = NamedCandidates[k]
    /\ nameChecked = FALSE /\ nameValid = FALSE
    /\ WrapIdle /\ ChunkIdle /\ AuthorIdle /\ PostIdle /\ TitleIdle /\ ItemIdle /\ MergeIdle /\ ExtractIdle /\ JoinIdle

\* is_valid_human_name(candidate)
ValidateName ==
    /\ ~nameChecked
    /\ nameValid' = is_valid_human_name(candidate)
    /\ nameChecked' = TRUE
    /\ UNCHANGED <<candidate, wrapVars, chunkVars, authorVars, postVars, titleVars, itemVars, mergeVars, extractVars, joinVars>>

NameNext == ValidateName

SpecName == NameInit /\ [][NameNext]_vars

-----------------------------------------------------------------------------
(* format_chunks_for_ingestion on chunk lists of its own: at most          *)
(* MaxItemChunks chunks, any combination of a metadata content_type and a  *)
(* source.                                                                 *)

allowed_types ==
    {"blog", "podcast_transcript", "call_transcript", "linkedin_post",
     "reddit_comment", "book", "other"}

DotPdf == <<".", "p", "d", "f">>
Book == <<"b", "o", "o", "k">>

EndsWith(s, p) == Len(s) >= Len(p) /\ SubSeq(s, Len(s) - Len(p) + 1, Len(s)) = p

\* a guess that looks at the source before it looks at the metadata
SourceBeforeMetadata(chunk) ==
    Let(IF chunk.source.some THEN chunk.source.text ELSE <<>>, LAMBDA src :
        IF src # <<>> /\ (Contains(src, DotPdf) \/ Contains(ToLower(src), Book))
        THEN "book"
        ELSE IF src # <<>> /\ (StartsWith(src, Http) \/ StartsWith(src, Https))
        THEN "blog"
        ELSE IF chunk.metadata.content_type \in allowed_types
        THEN chunk.metadata.content_type
        ELSE "other")

\* guess_content_type; a metadata without the key "content_type" carries
\* None here, and chunk.get("source", "") is the empty text for a source
\* that is missing or None (both are falsy in the two tests that follow)
guess_content_type(chunk) ==
    IF chunk.metadata.content_type \in allowed_types
    THEN chunk.metadata.content_type
    ELSE Let(IF chunk.source.some THEN chunk.source.text ELSE <<>>, LAMBDA src :
             IF src # <<>> /\ (\/ EndsWith(src, DotPdf)
                               \/ Contains(src, DotPdf)
                               \/ Contains(ToLower(src), Book))
             THEN "book"
             ELSE IF src # <<>> /\ (StartsWith(src, Http) \/ StartsWith(src, Https))
             THEN "blog"
             ELSE "other")

\* the Item of a chunk that carries its source and its metadata
IngestionItem(chunk) ==
    [title |-> Let(extract_title_from_content(chunk.content, chunk.metadata.title),
                   LAMBDA title_guess :
                       IF title_guess # <<>> THEN title_guess ELSE UntitledChapter),
     content |-> format_markdown(chunk.content),
     content_type |-> guess_content_type(chunk),
     source_url |-> chunk.source]

MaxItemChunks == 1

\* the values of chunk["source"]: None, "", and seven texts
ItemSources ==
    { NoText, Text(<<>>),
      Text(<<"a", ".", "p", "d", "f">>),
      Text(<<"M", "y", " ", "B", "o", "o", "k">>),
      Text(Http \o <<"a">>),
      Text(Https \o <<"b">>),
      Text(Http \o <<"e", "b", "o", "o", "k", "s">>),
      Text(<<"H", "T", "T", "P", ":", "/", "/", "c">>),
      Text(<<"f", "t", "p", ":", "/", "/", "d">>) }

\* the values of metadata["content_type"]: absent, allowed, or not allowed
ItemTypes == allowed_types \cup {None, "video", "Book"}

ItemChunks ==
    { [content |-> <<"#", " ", "T", "\n", "b">>, source |-> s,
       metadata |-> [content_type |-> t, title |-> NoText]] :
          s \in ItemSources, t \in ItemTypes }

ItemInit ==
    /\ fmtChunks \in LinesUpTo(ItemChunks, MaxItemChunks)
    /\ fmtDone = FALSE /\ fmtItems = <<>>
    /\ WrapIdle /\ ChunkIdle /\ AuthorIdle /\ NameIdle /\ PostIdle /\ TitleIdle
    /\ MergeIdle /\ ExtractIdle /\ JoinIdle

\* "for chunk in chunks: items.append({...})"
FormatItems ==
    /\ ~fmtDone
    /\ fmtItems' = [i \in 1..Len(fmtChunks) |-> IngestionItem(fmtChunks[i])]
    /\ fmtDone' = TRUE
    /\ UNCHANGED <<fmtChunks, wrapVars, chunkVars, authorVars, nameVars, postVars,
                   titleVars, mergeVars, extractVars, joinVars>>

ItemNext == FormatItems

SpecItems == ItemInit /\ [][ItemNext]_vars

-----------------------------------------------------------------------------
(* The merge pass of chunk_pdf_by_headings on chunk lists of its own: at   *)
(* most MaxMergeChunks headed chunks whose lengths lie on both sides of    *)
(* the 300-character limit.                                                *)

MaxMergeChunks == 3

\* a chunk content as SavePdfChunk builds it, n characters long
Section(n) ==
    HeadingPrefix \o <<"T">> \o NL \o NL \o [i \in 1..(n - 6) |-> "a"]

SectionLengths == {7, MinChunkLen - 1, MinChunkLen, MinChunkLen + 1}

MergeInit ==
    /\ \E ns \in LinesUpTo(SectionLengths, MaxMergeChunks) :
          mergeIn = [i \in 1..Len(ns) |-> [id |-> uuid4(1, i - 1), content |-> Section(ns[i])]]
    /\ mergeDone = FALSE /\ mergeOut = <<>>
    /\ WrapIdle /\ ChunkIdle /\ AuthorIdle /\ NameIdle /\ PostIdle /\ TitleIdle
    /\ ItemIdle /\ ExtractIdle /\ JoinIdle

\* "merged_chunks = []; for chunk in chunks: ..."
Merge ==
    /\ ~mergeDone
    /\ mergeOut' = MergeLoop(<<>>, mergeIn, 1)
    /\ mergeDone' = TRUE
    /\ UNCHANGED <<mergeIn, wrapVars, chunkVars, authorVars, nameVars, postVars,
                   titleVars, itemVars, extractVars, joinVars>>

MergeNext == Merge

SpecMerge == MergeInit /\ [][MergeNext]_vars

-----------------------------------------------------------------------------
(* One document through extract_from_url or extract_from_pdf: which        *)
(* extraction functions run, and the get_author call each of them makes.   *)

MaxSpans == 2
MaxExtractPreviewLines == 1

Max(a, b) == IF a >= b THEN a ELSE b

\* extract_structured_from_pdf, line 277:
\* font_sizes[max(1, len(font_sizes) // 10)] if font_sizes else 0
\* raises IndexError when the index is not below len(font_sizes)
ThresholdRaises(n) == n > 0 /\ Max(1, n \div 10) >= n

\* extract_from_pdf, lines 520-525: the first function it calls
FirstBackend(hasFitz) ==
    IF hasFitz THEN "extract_structured_from_pdf" ELSE "extract_from_pdf_plumber"

ExtractInit ==
    /\ \E ks \in LinesUpTo(1..Len(PreviewVocab), MaxExtractPreviewLines) :
          preview = PreviewOf(ks)
    /\ authorMode \in AuthorModes
    /\ entry \in {"extract_from_url", "extract_from_pdf"}
    /\ fitz \in BOOLEAN
    /\ opens \in [fitz : BOOLEAN, pdfplumber : BOOLEAN]
    /\ spanCount \in 0..MaxSpans
    /\ IF entry = "extract_from_url"
       THEN /\ ~fitz /\ spanCount = 0 /\ opens = [fitz |-> FALSE, pdfplumber |-> FALSE]
            /\ caller = "extract_from_url" /\ authorPc = "start"
       ELSE /\ (~fitz => spanCount = 0 /\ ~opens.fitz)
            /\ caller = FirstBackend(fitz) /\ authorPc = "opening"
    /\ llmCalls = 0 /\ llmRequest = NoRequest
    /\ llmReply = NoReply /\ author_guess = NoText /\ outcome = NoOutcome
    /\ escaped = None
    /\ resolved = <<>> /\ extractPc = "running"
    /\ WrapIdle /\ ChunkIdle /\ NameIdle /\ PostIdle /\ TitleIdle
    /\ ItemIdle /\ MergeIdle /\ JoinIdle

\* fitz.open (line 253) and pdfplumber.open (line 367).  An exception of
\* fitz.open is caught at line 523 and extract_from_pdf_plumber is called;
\* an exception of pdfplumber.open is caught at line 515, and None returned
OpenPdf ==
    /\ extractPc = "running" /\ authorPc = "opening"
    /\ IF caller = "extract_structured_from_pdf"
       THEN IF opens.fitz
            THEN authorPc' = "start" /\ UNCHANGED <<caller, extractPc>>
            ELSE caller' = "extract_from_pdf_plumber" /\ UNCHANGED <<authorPc, extractPc>>
       ELSE IF opens.pdfplumber
            THEN authorPc' = "start" /\ UNCHANGED <<caller, extractPc>>
            ELSE authorPc' = "idle" /\ extractPc' = "returned" /\ UNCHANGED caller
    /\ UNCHANGED <<preview, authorMode, llmCalls, llmRequest, llmReply, author_guess,
                   outcome, escaped, entry, fitz, opens, spanCount, resolved>>
    /\ UNCHANGED <<wrapVars, chunkVars, nameVars, postVars, titleVars,
                   itemVars, mergeVars, joinVars>>

\* extract_structured_from_pdf after its get_author call (line 265): the
\* IndexError of line 277 leaves the function, is caught at line 523, and
\* extract_from_pdf_plumber starts on the same file
StructuredRaises ==
    /\ extractPc = "running" /\ authorPc = "attached"
    /\ caller = "extract_structured_from_pdf"
    /\ ThresholdRaises(spanCount)
    /\ resolved' = Append(resolved, caller)
    /\ caller' = "extract_from_pdf_plumber"
    /\ authorPc' = "opening"
    /\ llmReply' = NoReply /\ author_guess' = NoText /\ outcome' = NoOutcome
    /\ UNCHANGED <<preview, authorMode, llmCalls, llmRequest, escaped,
                   entry, fitz, opens, spanCount, extractPc>>
    /\ UNCHANGED <<wrapVars, chunkVars, nameVars, postVars, titleVars,
                   itemVars, mergeVars, joinVars>>

\* the extraction function returns the document with the stored author
ExtractReturns ==
    /\ extractPc = "running" /\ authorPc = "attached"
    /\ ~(caller = "extract_structured_from_pdf" /\ ThresholdRaises(spanCount))
    /\ resolved' = Append(resolved, caller)
    /\ extractPc' = "returned"
    /\ UNCHANGED <<authorVars, entry, fitz, opens, spanCount>>
    /\ UNCHANGED <<wrapVars, chunkVars, nameVars, postVars, titleVars,
                   itemVars, mergeVars, joinVars>>

ExtractNext ==
    \/ OpenPdf
    \/ ResolveByRule
    \/ IssueRequest
    \/ \E content \in LlmContents : LlmResponds(content)
    \/ \E e \in LlmErrors : LlmRaises(e)
    \/ StructuredRaises
    \/ ExtractReturns

SpecExtract == ExtractInit /\ [][ExtractNext]_vars

-----------------------------------------------------------------------------
(* smart_join_pdf_lines on its own: texts of at most MaxJoinLines lines    *)
(* drawn from JoinVocab.                                                   *)

MaxJoinLines == 3

JoinVocab ==
    << <<"f", "o", "o">>,               \* ends in a letter, begins in lower case
       <<"b", "a", "r", " ">>,          \* the same, with a trailing space
       <<"2", "b">>,                    \* begins with a digit
       <<"B", "a", "z">>,               \* begins in upper case
       <<"e", "n", "d", ".">>,          \* ends in punctuation
       <<>> >>                          \* blank line

JoinInit ==
    /\ \E ks \in LinesUpTo(1..Len(JoinVocab), MaxJoinLines) :
          joinText = Join([i \in 1..Len(ks) |-> JoinVocab[ks[i]]], NL)
    /\ joinDone = FALSE /\ joinOut = <<>>
    /\ WrapIdle /\ ChunkIdle /\ AuthorIdle /\ NameIdle /\ PostIdle /\ TitleIdle
    /\ ItemIdle /\ MergeIdle /\ ExtractIdle

SmartJoin ==
    /\ ~joinDone
    /\ joinOut' = smart_join_pdf_lines(joinText)
    /\ joinDone' = TRUE
    /\ UNCHANGED <<joinText, wrapVars, chunkVars, authorVars, nameVars, postVars,
                   titleVars, itemVars, mergeVars, extractVars>>

JoinNext == SmartJoin

SpecJoin == JoinInit /\ [][JoinNext]_vars

-----------------------------------------------------------------------------
(* chunk_document on LineRecord lists only: lists of at most               *)
(* MaxSectionLines records of every text of PdfVocab but the long line,    *)
(* with one record or none in the larger font, the list of three sections  *)
(* and a list without font sizes.                                          *)

MaxSectionLines == 3

PdfInit ==
    /\ \/ \E n \in 0..MaxSectionLines :
             \E ks \in [1..n -> 1..(Len(PdfVocab) - 1)] : \E big \in 0..n :
                document = PdfDoc(ks, big)
       \/ document = ThreeSectionDoc
       \/ document = UnsizedDoc
    /\ chunkPc = "start" /\ chunks = <<>> /\ spans = <<>> /\ raised = None
    /\ rechunked = NotRechunked /\ nextId = 1
    /\ items = <<>> /\ capability = NoTagger /\ tagSource = NoTags
    /\ WrapIdle /\ AuthorIdle /\ NameIdle /\ PostIdle /\ TitleIdle
    /\ ItemIdle /\ MergeIdle /\ ExtractIdle /\ JoinIdle

SpecPdf == PdfInit /\ [][ChunkNext]_vars

-----------------------------------------------------------------------------
(* Properties of the segmenter and the normaliser.                         *)

\* the fenced blocks of a text, each as the slice from the first character
\* of its opening fence line to the last character of its closing fence line
FencedBlocks(content) ==
    LET lr == SplitRanges(content, NL)
        fs == SelectSeq([i \in 1..Len(lr) |-> i],
                        LAMBDA i : IsFenceLine(Slice(content, lr[i])))
    IN { <<lr[fs[2 * k - 1]][1], lr[fs[2 * k]][2]>> : k \in 1..(Len(fs) \div 2) }

Disjoint(r, q) == r[2] < q[1] \/ q[2] < r[1]
Within(r, q) == q[1] <= r[1] /\ r[2] <= q[2]

\* C1: for a web document, every fenced block of the input lies inside the
\* slice of a single chunk or outside every chunk's slice: no chunk boundary
\* falls between an opening fence line and its closing fence line.
FenceIntegrity ==
    (chunkPc = "returned" /\ document.kind = "str") =>
        \A b \in FencedBlocks(document.content) : \A i \in 1..Len(spans) :
            Disjoint(b, spans[i]) \/ Within(b, spans[i])

\* C2: applying auto_wrap_code_blocks to its own result returns that result,
\* for every text and both modes.
WrapIdempotent == wrapCalls = 2 => wrapTwice = wrapOnce

\* C3: chunking the content of a returned chunk again returns exactly one
\* chunk, whose content is that same content.
RechunkIdempotent ==
    rechunked.of # 0 =>
        /\ Len(rechunked.chunks) = 1
        /\ rechunked.chunks[1].content = chunks[rechunked.of].content

\* C4: in the returned chunk list no chunk other than the first is shorter
\* than 300 characters, for web and PDF documents alike.
SizeInvariant ==
    chunkPc = "returned" =>
        \A i \in 2..Len(chunks) : Len(chunks[i].content) >= MinChunkLen

-----------------------------------------------------------------------------
(* Properties of the author resolver and the name validator.               *)

\* C5: whenever the rule-based cascade yields a name for the preview,
\* get_author returns that comma-joined result and no LLM request is issued
\* in that resolution; a request is issued only when the cascade yields
\* nothing.
RuleShortCircuit ==
    LET found == extract_author_from_text(preview)
    IN /\ llmCalls > 0 => ~Truthy(found)
       /\ Truthy(found) =>
             /\ llmCalls = 0 /\ llmRequest = NoRequest /\ llmReply = NoReply
             /\ authorPc \in {"idle", "start", "attached"}
             /\ authorPc = "attached" => author_guess = found

RuleShortCircuitReached ==
    /\ authorPc = "attached"
    /\ Truthy(extract_author_from_text(preview))
    /\ author_guess = extract_author_from_text(preview)
    /\ llmCalls = 0

JaneSmith == <<"J","a","n","e"," ","S","m","i","t","h">>
ByJaneSmith == <<"B","y"," ">> \o JaneSmith

\* 'By Jane Smith' stands on a line of its own, and no other line of the
\* preview is matched by any of the five patterns
LoneByline(text) ==
    LET lines == Split(text, NL)
    IN /\ \E i \in 1..Len(lines) : lines[i] = ByJaneSmith
       /\ \A i \in 1..Len(lines) :
             lines[i] # ByJaneSmith =>
                /\ \A p \in 1..4 : FindAll(p, lines[i]) = <<>>
                /\ AuthorLines(lines[i]) = <<>>

\* C6: a preview in which 'By Jane Smith' stands on a line of its own among
\* lines with no byline pattern resolves to the name "Jane Smith", with the
\* method "rule_based" where a method is recorded.
LoneBylineResolved ==
    (authorPc = "attached" /\ LoneByline(preview)) =>
        /\ author_guess = Text(JaneSmith)
        /\ outcome.author = Text(JaneSmith)
        /\ caller \in PdfCallers => outcome.method = "rule_based"

Unknown == <<"U","n","k","n","o","w","n">>

\* C7: when the cascade finds no name and the LLM responds "Unknown" or an
\* empty string, the resolution yields no name, and the method "fallback"
\* where a method is recorded.
UnknownIsFallback ==
    (authorPc = "attached" /\ llmReply.kind = "content"
        /\ llmReply.content \in {Unknown, <<>>}) =>
        /\ ~Truthy(author_guess)
        /\ ~Truthy(outcome.author)
        /\ caller \in PdfCallers => outcome.method = "fallback"

MethodTaxonomy ==
    authorPc = "attached" =>
        /\ outcome.method \in {"rule_based", "external_llm_" \o authorMode, "fallback"}
        /\ outcome.method = "rule_based" <=>
              (llmCalls = 0 /\ Truthy(author_guess))
        /\ outcome.method = "external_llm_" \o authorMode <=>
              (llmReply.kind = "content" /\ Truthy(author_guess))
        /\ outcome.method = "fallback" <=> ~Truthy(author_guess)

\* the rule of C10 as the claim states it: str.split() separates the
\* parts, str.isupper() and str.islower() decide the case of a string
StatedNameRule(name0) ==
    LET trimmed == Strip(name0)
        parts == Words(trimmed)
    IN /\ Len(trimmed) >= 5
       /\ ~(IsUpperStr(trimmed) /\ Len(parts) <= 3)
       /\ \A k \in 1..Len(trimmed) : trimmed[k] \in Letter \cup WhiteSpace \cup {".", "'", "-"}
       /\ Len(parts) >= 2
       /\ \A k \in 1..Len(parts) :
             Len(parts[k]) > 1 =>
                parts[k][1] \in Upper /\ IsLowerStr(Tail(parts[k]))

-----------------------------------------------------------------------------
(* Properties of chunk_document from document to Items.                    *)

Intro == <<"I","n","t","r","o">>
Details == <<"D","e","t","a","i","l","s">>

IsIntroDoc == document.kind = "str" /\ document.content = IntroDoc.content

\* C11: the document "# Intro\nHello\n\n# Details\nWorld" yields exactly two
\* chunks, cut from the first and the second section in that order, with
\* contents that are not empty; the titles derived from them are "Intro"
\* and "Details".
IntroDetails ==
    (IsIntroDoc /\ chunkPc \in {"returned", "formatted"}) =>
        /\ Len(chunks) = 2
        /\ spans = << <<1, 15>>, <<16, 30>> >>
        /\ chunks[1].content # <<>> /\ chunks[2].content # <<>>
        /\ chunkPc = "formatted" =>
              /\ Len(items) = 2
              /\ items[1].title = Intro
              /\ items[2].title = Details

IntroDetailsReached == IsIntroDoc /\ chunkPc = "formatted" /\ Len(items) = 2

Chapter1 == PdfVocab[2]
BodyTexts == {PdfVocab[4], PdfVocab[6]}

\* a LineRecord list with one line "Chapter 1", set in the larger font, at
\* position h, every other line a body line in the smaller font
ChapterAt(lines, h) ==
    /\ h \in 1..Len(lines)
    /\ lines[h].text = Chapter1 /\ lines[h].size = 14
    /\ \A j \in 1..Len(lines) :
          j # h => lines[j].text \in BodyTexts /\ lines[j].size = 10

RECURSIVE IsSubsequence(_, _)
IsSubsequence(a, b) ==
    IF a = <<>> THEN TRUE
    ELSE IF b = <<>> THEN FALSE
    ELSE IF a[1] = b[1] THEN IsSubsequence(Tail(a), Tail(b))
    ELSE IsSubsequence(a, Tail(b))

ChapterHeading == <<"#", "#", " ">> \o Chapter1 \o <<"\n", "\n">>

\* one chunk, headed "## Chapter 1", whose body holds the lines after
\* position h in their order
OneChapterChunk(lines, h) ==
    /\ Len(chunks) = 1
    /\ StartsWith(chunks[1].content, ChapterHeading)
    /\ IsSubsequence([j \in 1..(Len(lines) - h) |-> lines[h + j].text],
                     SplitLines(SubSeq(chunks[1].content, Len(ChapterHeading) + 1,
                                       Len(chunks[1].content))))

IsEmptyDocument(doc) ==
    \/ doc.kind \in {"None", "missing"}
    \/ doc.kind = "str" /\ doc.content = <<>>
    \/ doc.kind = "list" /\ \A i \in 1..Len(doc.content) : Strip(doc.content[i].text) = <<>>

\* C13: for every empty or malformed document chunk_document raises no
\* exception and returns an empty chunk list.
EmptyInEmptyOut ==
    IsEmptyDocument(document) =>
        /\ chunkPc # "raised"
        /\ chunkPc \in {"returned", "formatted"} => chunks = <<>>

\* C14: every chunk chunk_document returns, the chunk of the PDF fallback
\* included, has a content that is not empty.
NoEmptyChunk ==
    chunkPc \in {"returned", "formatted"} =>
        \A i \in 1..Len(chunks) : chunks[i].content # <<>>

-----------------------------------------------------------------------------
(* Properties of postprocess_markdown.                                     *)

\* the lines of a text that lie between an opening fence line and its
\* closing fence line, in order
RECURSIVE InsideFence(_, _, _)
InsideFence(lines, i, in_code) ==
    IF i > Len(lines) THEN <<>>
    ELSE IF IsFenceLine(lines[i]) THEN InsideFence(lines, i + 1, ~in_code)
    ELSE (IF in_code /\ \E j \in (i + 1)..Len(lines) : IsFenceLine(lines[j])
          THEN <<lines[i]>> ELSE <<>>)
         \o InsideFence(lines, i + 1, in_code)

\* C15: the lines inside the fenced blocks of the input of
\* postprocess_markdown are lines of its result, character for character,
\* in the same order and number.
FenceVerbatim ==
    postDone =>
        IsSubsequence(InsideFence(SplitLines(postText), 1, FALSE), SplitLines(postOut))

-----------------------------------------------------------------------------
(* Properties of chunk ids and chunk order.                                *)

Returned == chunkPc \in {"returned", "formatted"}

\* the chunks of a PDF document before the merge of lines 301-308, with the
\* ids of a run that started at id 1
BuiltChunks(lines) ==
    Let(PdfSegments(lines, 1), LAMBDA segs :
        IF segs = <<>> THEN PdfFallback(lines, 1) ELSE segs)

PairwiseDistinct(ids) ==
    \A i \in 1..Len(ids) : \A j \in 1..Len(ids) : i # j => ids[i] # ids[j]

IdsOf(chunkList) == [i \in 1..Len(chunkList) |-> chunkList[i].id]

\* C16: the ids of the chunks one run returns are pairwise distinct, also
\* after the merge, and so are those of a second run together with the
\* first; a chunk that took in later chunks keeps the id it was built with.
DistinctIds ==
    Returned =>
        /\ PairwiseDistinct(IdsOf(chunks) \o IdsOf(rechunked.chunks))
        /\ (TakesPdfBranch(document) /\ chunkPc = "returned" /\ rechunked.of = 0) =>
              Let(BuiltChunks(document.content), LAMBDA built :
                  \A i \in 1..Len(chunks) : \E k \in 1..Len(built) :
                      /\ built[k].id = chunks[i].id
                      /\ StartsWith(chunks[i].content, built[k].content))

DistinctIdsReached ==
    /\ chunkPc = "returned" /\ TakesPdfBranch(document)
    /\ IdsOf(chunks) = <<1, 2>>
    /\ Len(BuiltChunks(document.content)) = 3

\* C17: chunks are returned in the order of their source: the slices of a
\* web document follow one another and chunk i is cut from slice i; the
\* chunks of a PDF document are those built while the lines were read, in
\* the order they were built, the merge changing no order; and
\* format_chunks_for_ingestion returns one Item per chunk, Item i built
\* from chunk i.
OrderKept ==
    Returned =>
        /\ document.kind \in {"str", "missing"} =>
              /\ Len(chunks) = Len(spans)
              /\ \A i \in 2..Len(spans) : spans[i - 1][2] < spans[i][1]
              /\ (chunkPc = "returned" /\ rechunked.of = 0) =>
                    \A i \in 1..Len(spans) :
                        chunks[i].content =
                            postprocess_markdown(Strip(Slice(document.content, spans[i])), "web")
        /\ \A i \in 2..Len(chunks) : chunks[i - 1].id < chunks[i].id
        /\ chunkPc = "formatted" =>
              /\ Len(items) = Len(chunks)
              /\ \A i \in 1..Len(chunks) : items[i] = Item(chunks[i])

OrderKeptReached ==
    /\ chunkPc = "formatted" /\ TakesPdfBranch(document)
    /\ Len(items) = 2 /\ items[1] # items[2]

\* C18: no step of chunking, re-chunking or formatting changes the document
\* that was passed in: its content (a string, or the text and size of every
\* LineRecord) is after the call what it was before.
InputUnchanged == [][document' = document]_vars

-----------------------------------------------------------------------------
(* Properties of the tagging tiers.                                        *)

\* C19: every returned chunk carries a tag list of at most top_n entries,
\* all of them from spaCy when spaCy is available and from TF-IDF when only
\* TF-IDF is; the list is empty when neither is available and when only
\* TF-IDF is and no text holds a term; and tagging raises nothing: an
\* exception leaves chunk_document only for a content it cannot read.
TagTiers ==
    /\ chunkPc = "raised" => RaisesTypeError(document)
    /\ Returned =>
          \A i \in 1..Len(chunks) :
              /\ Len(chunks[i].tags) <= top_n
              /\ \A k \in 1..Len(chunks[i].tags) :
                    chunks[i].tags[k][1] = (IF capability.nlp THEN "nlp" ELSE "tfidf")
              /\ (~capability.nlp /\ ~capability.tfidf) => chunks[i].tags = <<>>
              /\ (~capability.nlp /\ capability.tfidf /\ tagSource.tfidf = 0) =>
                    chunks[i].tags = <<>>

TagTiersReached ==
    /\ Returned /\ capability.nlp /\ capability.tfidf
    /\ tagSource.nlp > top_n
    /\ \E i \in 1..Len(chunks) :
          Len(chunks[i].tags) = top_n /\ chunks[i].tags[1][1] = "nlp"

-----------------------------------------------------------------------------
(* Properties of the title derivation.                                     *)

\* the text of a heading line: the line without its '#' marker and the
\* whitespace around it
StatedHeadingText(line) ==
    Let(FirstNonSpace(line, 1), LAMBDA p :
        Strip(SubSeq(line, p + HashRun(line, p), Len(line))))

\* the four rules in their order, each used only when the ones before it
\* do not apply
StatedTitle(content, meta_title) ==
    LET lines == Split(content, NL)
        headings == SelectSeq(lines, IsTitleHeading)
        filled == SelectSeq(lines, LAMBDA l : Strip(l) # <<>>)
    IN IF meta_title.some /\ ToLower(Strip(meta_title.text)) \notin PlaceholderTitles
       THEN Truncate(Strip(meta_title.text), MetaTitleLimit)
       ELSE IF headings # <<>> THEN StatedHeadingText(headings[1])
       ELSE IF filled # <<>> THEN Truncate(Strip(filled[1]), FirstLineLimit)
       ELSE Untitled

\* C20: extract_title_from_content returns the metadata title when it is
\* no placeholder, else the text of the first heading line of the content,
\* else the first non-empty line cut to 80 characters, else "Untitled".
TitleRules == titleDone => titleOut = StatedTitle(titleContent, titleMeta)

-----------------------------------------------------------------------------
(* Properties of the Items' content_type.                                  *)

StatedTypes ==
    {"blog", "podcast_transcript", "call_transcript", "linkedin_post",
     "reddit_comment", "book", "other"}

SourceOf(chunk) == IF chunk.source.some THEN chunk.source.text ELSE <<>>

StatedType(chunk) ==
    IF chunk.metadata.content_type \in StatedTypes THEN chunk.metadata.content_type
    ELSE IF \/ Contains(SourceOf(chunk), <<".", "p", "d", "f">>)
            \/ Contains(ToLower(SourceOf(chunk)), <<"b", "o", "o", "k">>)
    THEN "book"
    ELSE IF \/ StartsWith(SourceOf(chunk), <<"h", "t", "t", "p", ":", "/", "/">>)
            \/ StartsWith(SourceOf(chunk), <<"h", "t", "t", "p", "s", ":", "/", "/">>)
    THEN "blog"
    ELSE "other"

\* C21: every Item's content_type is one of the seven allowed types: the
\* metadata content_type if that is allowed; else "book" if the source
\* contains ".pdf" or, in any letter case, "book"; else "blog" if the
\* source starts with http:// or https://; else "other".
ContentTypeRule ==
    fmtDone =>
        /\ Len(fmtItems) = Len(fmtChunks)
        /\ \A i \in 1..Len(fmtItems) :
              /\ fmtItems[i].content_type \in StatedTypes
              /\ fmtItems[i].content_type = StatedType(fmtChunks[i])

\* a metadata type that is not allowed, on a chunk whose source is a web
\* address with "book" in it: the Item is a book
ContentTypeRuleReached ==
    /\ fmtDone
    /\ \E i \in 1..Len(fmtItems) :
          /\ fmtChunks[i].metadata.content_type = "video"
          /\ StartsWith(SourceOf(fmtChunks[i]), <<"h", "t", "t", "p", ":", "/", "/">>)
          /\ fmtItems[i].content_type = "book"

-----------------------------------------------------------------------------
(* Properties of the merge pass.                                           *)

ContentsOf(chunkList) == [i \in 1..Len(chunkList) |-> chunkList[i].content]

BlankLine == <<"\n", "\n">>

\* the positions of the input chunks that are emitted standalone
Standalone(input) == {1} \cup {i \in 2..Len(input) : Len(input[i].content) >= 300}

\* the k-th smallest member of a set of numbers
Kth(S, k) == CHOOSE p \in S : Cardinality({q \in S : q <= p}) = k

\* the last position of the group that starts at the standalone position p
GroupEnd(input, p) ==
    IF \E q \in Standalone(input) : q > p
    THEN (CHOOSE q \in Standalone(input) :
              q > p /\ \A r \in Standalone(input) : r > p => q <= r) - 1
    ELSE Len(input)

\* C22: the first chunk is kept; each later chunk shorter than 300
\* characters is appended, after "\n\n", to the last emitted chunk, whose id
\* stays; each later chunk of 300 characters or more is emitted standalone;
\* so the output contents joined by "\n\n" are the input contents joined by
\* "\n\n".
MergeRule ==
    mergeDone =>
        /\ (mergeIn = <<>> => mergeOut = <<>>)
        /\ mergeIn # <<>> =>
              /\ Len(mergeOut) = Cardinality(Standalone(mergeIn) \cap (1..Len(mergeIn)))
              /\ \A k \in 1..Len(mergeOut) :
                    \E p \in {Kth(Standalone(mergeIn), k)} :
                       /\ mergeOut[k].id = mergeIn[p].id
                       /\ mergeOut[k].content =
                             Join(SubSeq(ContentsOf(mergeIn), p, GroupEnd(mergeIn, p)),
                                  BlankLine)
        /\ Join(ContentsOf(mergeOut), BlankLine) = Join(ContentsOf(mergeIn), BlankLine)

\* a chunk of 299 characters is merged and a chunk of 300 is not
MergeRuleReached ==
    /\ mergeDone /\ Len(mergeIn) = 3 /\ Len(mergeOut) = 2
    /\ Len(mergeIn[2].content) = 299 /\ Len(mergeIn[3].content) = 300
    /\ Len(mergeOut[1].content) = Len(mergeIn[1].content) + 2 + 299
    /\ mergeOut[2] = mergeIn[3]

-----------------------------------------------------------------------------
(* Properties of a document's extraction.                                  *)

\* C23: processing one document performs author resolution exactly once
\* and issues at most one LLM request, in every execution of
\* extract_from_url and extract_from_pdf that reaches an author resolution,
\* the executions in which the first PDF backend raises included.
OneResolutionPerDocument ==
    extractPc = "returned" /\ resolved # <<>> =>
        Len(resolved) = 1 /\ llmCalls <= 1

-----------------------------------------------------------------------------
(* Properties of the LLM request.                                          *)

StatedLimit(mode) ==
    CASE mode = "cost_saving" -> 2000
      [] mode = "balanced" -> 5000
      [] mode = "accuracy" -> 10000

\* C24: the content preview handed to the LLM request never exceeds the
\* content_length of the active mode (2000, 5000 or 10000 characters).
PreviewWithinLimit ==
    llmRequest.issued =>
        Len(llmRequest.content_preview) <= StatedLimit(llmRequest.mode)

-----------------------------------------------------------------------------
(* Properties of the PDF variant's sections.                               *)

LineText(lines, i) == Strip(lines[i].text)

IsHeadingAt(lines, i) == LineText(lines, i) # <<>> /\ IsPdfHeading(LineText(lines, i))

\* the position of the first heading after position h, or Len(lines) + 1
NextHeading(lines, h) ==
    FirstIdx(lines, h + 1, LAMBDA j : IsHeadingAt(lines, j))

\* the non-blank lines between the heading at h and the next heading
BodyOf(lines, h) ==
    LET between == SubSeq([j \in 1..Len(lines) |-> LineText(lines, j)],
                          h + 1, NextHeading(lines, h) - 1)
    IN SelectSeq(between, LAMBDA t : t # <<>>)

\* the headings that are followed by a non-empty body, in input order
HeadedSections(lines) ==
    SelectSeq([i \in 1..Len(lines) |-> i],
              LAMBDA h : IsHeadingAt(lines, h) /\ BodyOf(lines, h) # <<>>)

StatedSection(lines, h) ==
    <<"#", "#", " ">> \o LineText(lines, h) \o <<"\n", "\n">>
        \o postprocess_markdown(Join(BodyOf(lines, h), NL), "pdf")

\* C25: when at least one heading is followed by a non-empty body, the
\* chunks before merging are, in order, one per such heading, each with the
\* content "## " + heading + "\n\n" + the postprocessed non-blank,
\* non-heading lines between that heading and the next one; the lines that
\* precede the first heading are in no chunk.
SectionContents ==
    (TakesPdfBranch(document) /\ chunkPc = "returned" /\ rechunked.of = 0) =>
        Let(HeadedSections(document.content), LAMBDA hs :
            hs # <<>> =>
                ContentsOf(BuiltChunks(document.content)) =
                    [k \in 1..Len(hs) |-> StatedSection(document.content, hs[k])])

\* a body line, the heading "Chapter 1", a body line: one chunk, without
\* the line that precedes the heading
SectionContentsReached ==
    /\ TakesPdfBranch(document) /\ chunkPc = "returned" /\ rechunked.of = 0
    /\ Len(document.content) = 3
    /\ document.content[1].text = PdfVocab[4]
    /\ document.content[2].text = Chapter1
    /\ document.content[3].text = PdfVocab[4]
    /\ Len(chunks) = 1
    /\ chunks[1].content = ChapterHeading \o PdfVocab[4]

-----------------------------------------------------------------------------
(* Properties of the line-joining pre-pass.                                *)

\* the first line ends in an alphanumeric character and the next begins
\* with a lowercase letter or a digit (surrounding whitespace aside)
IsWrappedPair(first, next) ==
    /\ Strip(first) # <<>> /\ Strip(first)[Len(Strip(first))] \in Letter \cup Digit
    /\ Strip(next) # <<>> /\ Strip(next)[1] \in Lower \cup Digit

\* C26: every two consecutive input lines of which the first ends in an
\* alphanumeric character and the next begins with a lowercase letter or a
\* digit are on one output line, a single space between them, in runs of
\* three and more wrapped lines too.
WrappedPairsJoined ==
    joinDone =>
        \A i \in 1..(Len(SplitLines(joinText)) - 1) :
            IsWrappedPair(SplitLines(joinText)[i], SplitLines(joinText)[i + 1]) =>
                \E k \in 1..Len(SplitLines(joinOut)) :
                    Contains(SplitLines(joinOut)[k],
                             RStrip(SplitLines(joinText)[i]) \o <<" ">>
                                 \o LStrip(SplitLines(joinText)[i + 1]))

-----------------------------------------------------------------------------
(* Properties of the fences auto_wrap_code_blocks inserts.                 *)

\* the lines a returned text was joined from: '\n'.join(output) of no line
\* and of one empty line are both the empty text, and the input tells which
JoinedFrom(inputLines, outText) ==
    IF inputLines = <<>> THEN SplitLines(outText) ELSE Split(outText, NL)

\* out is inp with fence lines inserted, from position i of inp and j of
\* out on: a line of inp is copied, an explicit fence line switching the
\* scanner between outside and inside; or, outside an explicit fence only,
\* an inserted "```" opens before a non-empty run of n consecutive
\* code-like lines of inp, which are copied, and an inserted "```" closes
RECURSIVE InsertsFencesOnly(_, _, _, _, _, _)
InsertsFencesOnly(inp, out, i, j, explicit, mode) ==
    IF i > Len(inp) THEN j > Len(out)
    ELSE \/ /\ j <= Len(out) /\ out[j] = inp[i]
            /\ InsertsFencesOnly(inp, out, i + 1, j + 1,
                                 IF StartsWith(Strip(inp[i]), <<BQ, BQ, BQ>>)
                                 THEN ~explicit ELSE explicit, mode)
         \/ /\ ~explicit
            /\ j <= Len(out) /\ out[j] = <<BQ, BQ, BQ>>
            /\ \E n \in 1..(Len(inp) - i + 1) :
                  /\ j + n + 1 <= Len(out)
                  /\ \A k \in 0..(n - 1) :
                        /\ is_code_line(inp[i + k], mode)
                        /\ ~StartsWith(Strip(inp[i + k]), <<BQ, BQ, BQ>>)
                        /\ out[j + 1 + k] = inp[i + k]
                  /\ out[j + n + 1] = <<BQ, BQ, BQ>>
                  /\ InsertsFencesOnly(inp, out, i + n, j + n + 2, explicit, mode)

-----------------------------------------------------------------------------
(* Properties of the fences postprocess_markdown returns.                  *)

FenceLineCount(text) ==
    Cardinality({i \in 1..Len(SplitLines(text)) :
                    StartsWith(Strip(SplitLines(text)[i]), <<BQ, BQ, BQ>>)})

\* C28: for every input, an input with an unclosed explicit fence
\* included, the output of postprocess_markdown contains an even number of
\* fence-delimiter lines.
FencesBalanced == postDone => FenceLineCount(postOut) % 2 = 0

\* an input whose only fence is never closed: the output closes it
FencesBalancedReached ==
    /\ postDone
    /\ FenceLineCount(postText) = 1
    /\ SplitLines(postText)[1] = <<"a", "b">>
    /\ FenceLineCount(postOut) = 2

-----------------------------------------------------------------------------
(* Properties of the PDF variant and the font sizes.                       *)

\* the same LineRecords with every font size set to size
Resized(lines, size) == [i \in 1..Len(lines) |-> [lines[i] EXCEPT !.size = size]]

\* C29: the result of chunk_pdf_by_headings does not depend on the font
\* sizes: the same texts with other sizes (none, all alike, all large) give
\* as many chunks with the same contents.
FontSizesIgnored ==
    (TakesPdfBranch(document) /\ chunkPc = "returned" /\ rechunked.of = 0) =>
        \A size \in {0, 10, 14} :
            ContentsOf(chunks) =
                ContentsOf(chunk_pdf_by_headings(Resized(document.content, size), 1))

\* "Chapter 1" in the small font and a body line in the large one: the
\* body line is no heading
FontSizesIgnoredReached ==
    /\ TakesPdfBranch(document) /\ chunkPc = "returned"
    /\ Len(document.content) = 2
    /\ document.content[1] = [text |-> Chapter1, size |-> 10]
    /\ document.content[2] = [text |-> PdfVocab[4], size |-> 14]
    /\ ContentsOf(chunks) = << ChapterHeading \o PdfVocab[4] >>

-----------------------------------------------------------------------------
(* Properties of the PDF variant's fallback.                               *)

\* the stripped texts of the lines that are not blank, in input order
NonBlankTexts(lines) ==
    SelectSeq([i \in 1..Len(lines) |-> LineText(lines, i)], LAMBDA t : t # <<>>)

=============================================================================
